---- MODULE Spec2Model ----
(***************************************************************************)
(* Workflow orchestration engine of video_maker: the task registry         *)
(* (web/tasks/task_manager.py), its JSON snapshot, the status projection   *)
(* and the stage-progression automaton (web/routes/simple_api.py).         *)
(*                                                                         *)
(* Conventions.  Python None is the empty tuple and a present optional     *)
(* value x is <<x>>.  A dict is a function on its key set.  A sub-task     *)
(* name is the sequence of its '_'-separated parts, so that str.split and  *)
(* str.startswith are computed on it.  Time is counted in ticks of one second. *)
(***************************************************************************)
EXTENDS Integers, Sequences, FiniteSets, TLC

VARIABLES
    tasks,      \* TaskManager._tasks: task_id -> WorkflowTask
    dirty,      \* TaskManager._dirty
    disk,       \* content of Config.TASK_STATE_FILE: None or <<snapshot>>
    now,        \* time.time(), in ticks
    last,       \* the last call of the environment and what it returned
    ops,        \* number of calls made by the environment so far
    thr,        \* the threads: position, automaton call stack, worker arguments
    fs,         \* the data directory: path -> content
    hist        \* history: stage launches, automaton invocations, deletions

regVars == <<tasks, dirty, disk>>
autoVars == <<thr, fs, hist>>
vars == <<tasks, dirty, disk, now, last, ops, thr, fs, hist>>

----------------------------------------------------------------------------
(* Python values *)

None == <<>>
Some(x) == <<x>>
IsNone(o) == Len(o) = 0
Val(o) == o[1]

EmptyDict == [k \in {} |-> 0]

\* dict.update(patch): keys of the patch are set, the others are kept
dict_replace(d, patch) == patch
dict_update(d, patch) ==
    [k \in (DOMAIN d) \cup (DOMAIN patch) |->
        IF k \in DOMAIN patch THEN patch[k] ELSE d[k]]

\* dict.get(key, default)
dict_get(d, k, default) == IF k \in DOMAIN d THEN d[k] ELSE default

----------------------------------------------------------------------------
(* TaskStatus and its JSON value *)

TaskStatus == {"PENDING", "RUNNING", "COMPLETED", "FAILED", "CANCELLED"}

StatusValue(s) ==
    CASE s = "PENDING" -> "pending"
      [] s = "RUNNING" -> "running"
      [] s = "COMPLETED" -> "completed"
      [] s = "FAILED" -> "failed"
      [] s = "CANCELLED" -> "cancelled"

StatusValues == {StatusValue(s) : s \in TaskStatus}

\* TaskStatus(value): the member with that value
TaskStatusOf(v) == CHOOSE s \in TaskStatus : StatusValue(s) = v

----------------------------------------------------------------------------
(* Ordered dict of sub-tasks: a sequence of [name, st] in insertion order *)

SubNames(sts) == {sts[i].name : i \in 1..Len(sts)}
HasSub(sts, n) == n \in SubNames(sts)
SubIndex(sts, n) == CHOOSE i \in 1..Len(sts) : sts[i].name = n
GetSub(sts, n) == sts[SubIndex(sts, n)].st
PutSubAlone(sts, n, st) == <<[name |-> n, st |-> st]>>
PutSub(sts, n, st) ==
    IF HasSub(sts, n)
    THEN [sts EXCEPT ![SubIndex(sts, n)] = [name |-> n, st |-> st]]
    ELSE Append(sts, [name |-> n, st |-> st])
DelSub(sts, n) == SelectSeq(sts, LAMBDA e : e.name # n)

\* SubTask(type=...): the dataclass defaults
SubTask(type, t) ==
    [type |-> type, status |-> "PENDING", message |-> "", progress |-> 0,
     updated_at |-> t, outputs |-> EmptyDict, error |-> None]

\* WorkflowTask(task_id=..., name=..., artifacts=...)
WorkflowTask(task_id, name, artifacts, t) ==
    [task_id |-> task_id, name |-> name, status |-> "PENDING", message |-> "",
     error |-> None, created_at |-> t, updated_at |-> t,
     artifacts |-> artifacts, sub_tasks |-> <<>>]

----------------------------------------------------------------------------
(* Names *)

TicksPerSecond == 1

RECURSIVE JoinParts(_)
\* '_'.join(parts)
JoinParts(parts) ==
    IF Len(parts) = 0 THEN ""
    ELSE IF Len(parts) = 1 THEN parts[1]
    ELSE parts[1] \o "_" \o JoinParts(Tail(parts))

\* time.strftime('%Y%m%d_%H%M%S', time.localtime(t)): one-second resolution,
\* two '_'-separated parts
strftime(t) == <<"D0", "T" \o ToString(t \div TicksPerSecond)>>

\* generate_subtask_name(file_info, subtask_type), subtask_type given by its parts
generate_subtask_name(file_info, subtask_type) ==
    subtask_type \o file_info.system_prompt_id \o file_info.user_prompt_id
        \o strftime(file_info.created_at)

\* name.startswith(prefix + '_') on part sequences
StartsWith(name, prefix) ==
    /\ Len(name) > Len(prefix)
    /\ SubSeq(name, 1, Len(prefix)) = prefix

----------------------------------------------------------------------------
(* Serialisation: SubTask.to_dict, WorkflowTask.to_dict, and the constructors
   load_tasks_from_disk applies to the parsed JSON *)

SubTask_to_dict(st) == [st EXCEPT !.status = StatusValue(st.status)]

WorkflowTask_to_dict(wf) ==
    [task_id |-> wf.task_id, name |-> wf.name, status |-> StatusValue(wf.status),
     message |-> wf.message, error |-> wf.error, created_at |-> wf.created_at,
     updated_at |-> wf.updated_at, artifacts |-> wf.artifacts,
     sub_tasks |-> [i \in 1..Len(wf.sub_tasks) |->
                      [name |-> wf.sub_tasks[i].name,
                       st |-> SubTask_to_dict(wf.sub_tasks[i].st)]]]

tasks_to_save(ts) == [tid \in DOMAIN ts |-> WorkflowTask_to_dict(ts[tid])]

\* the same with the status left at the dataclass default
SubTask_from_dict_pending(sub_data) == [sub_data EXCEPT !.status = "PENDING"]
SubTask_from_dict(sub_data) ==
    [sub_data EXCEPT !.status = TaskStatusOf(sub_data.status)]

RestartError == "interrupted by restart"

\* lines 141-143: a workflow saved as running is loaded as failed
load_keep_status(task_data) == task_data
load_interrupt(task_data) ==
    IF task_data.status = StatusValue("RUNNING")
    THEN [task_data EXCEPT !.status = StatusValue("FAILED"),
                           !.error = Some(RestartError)]
    ELSE task_data

WorkflowTask_from_dict(task_data0) ==
    LET task_data == load_interrupt(task_data0) IN
    [task_id |-> task_data.task_id, name |-> task_data.name,
     status |-> TaskStatusOf(task_data.status), message |-> task_data.message,
     error |-> task_data.error, created_at |-> task_data.created_at,
     updated_at |-> task_data.updated_at, artifacts |-> task_data.artifacts,
     sub_tasks |-> [i \in 1..Len(task_data.sub_tasks) |->
                      [name |-> task_data.sub_tasks[i].name,
                       st |-> SubTask_from_dict(task_data.sub_tasks[i].st)]]]

\* load_tasks_from_disk in a fresh TaskManager (self._tasks = {})
loaded_tasks(d) ==
    IF IsNone(d) THEN EmptyDict
    ELSE [tid \in DOMAIN Val(d) |-> WorkflowTask_from_dict(Val(d)[tid])]

\* the same with the flag cleared whether the write succeeded or not
save_clearing_always(ts, is_dirty, d, write_ok) ==
    IF is_dirty /\ write_ok
    THEN [disk |-> Some(tasks_to_save(ts)), dirty |-> FALSE]
    ELSE [disk |-> d, dirty |-> FALSE]

\* save_tasks_to_disk: nothing when clean; the write either replaces the file
\* and clears the flag, or fails and leaves both
save_tasks_to_disk(ts, is_dirty, d, write_ok) ==
    IF is_dirty /\ write_ok
    THEN [disk |-> Some(tasks_to_save(ts)), dirty |-> FALSE]
    ELSE [disk |-> d, dirty |-> is_dirty]

----------------------------------------------------------------------------
(* TaskManager operations on one workflow record *)

\* sync_subtask_to_file_info: mirror the sub-task into the first file record of
\* artifacts['ai_clips_files'] whose generated name equals the sub-task's name
MirrorOf(st) ==
    [status |-> StatusValue(st.status), message |-> st.message,
     progress |-> st.progress, error |-> st.error, outputs |-> st.outputs,
     updated_at |-> st.updated_at]

sync_subtask_to_file_info(wf, sub_task_name) ==
    IF ~HasSub(wf.sub_tasks, sub_task_name) \/ Len(sub_task_name) < 4
       \/ "ai_clips_files" \notin DOMAIN wf.artifacts
    THEN wf
    ELSE
      LET files == wf.artifacts["ai_clips_files"]
          subtask_type == sub_task_name[1]
          expected_name(fi) ==
              <<subtask_type>> \o fi.system_prompt_id \o fi.user_prompt_id
                  \o strftime(fi.created_at)
          hits == {i \in 1..Len(files) : expected_name(files[i]) = sub_task_name}
      IN IF hits = {} THEN wf
         ELSE LET i == CHOOSE j \in hits : \A k \in hits : j <= k
                  fi == files[i]
                  fi2 == [fi EXCEPT !.sub_tasks = dict_update(@,
                            [k \in {subtask_type} |->
                                MirrorOf(GetSub(wf.sub_tasks, sub_task_name))])]
              IN [wf EXCEPT !.artifacts["ai_clips_files"] = [files EXCEPT ![i] = fi2]]

\* update_sub_task, lines 210-227: the sub-task after the call
set_status(status, error) == status
forced_status(status, error) == IF IsNone(error) THEN status ELSE "FAILED"

updated_sub_task_logging(old, status, message, progress, outputs, error, t) ==
    [old EXCEPT
        !.status = forced_status(status, error),
        !.message = IF IsNone(message) THEN @ ELSE @ \o Val(message),
        !.progress = IF IsNone(progress) THEN @ ELSE Val(progress),
        !.outputs = IF IsNone(outputs) THEN @ ELSE dict_update(@, Val(outputs)),
        !.error = IF IsNone(error) THEN @ ELSE error,
        !.updated_at = t]

updated_sub_task(old, status, message, progress, outputs, error, t) ==
    [old EXCEPT
        !.status = forced_status(status, error),
        !.message = IF IsNone(message) THEN @ ELSE Val(message),
        !.progress = IF IsNone(progress) THEN @ ELSE Val(progress),
        !.outputs = IF IsNone(outputs) THEN @ ELSE dict_update(@, Val(outputs)),
        !.error = IF IsNone(error) THEN @ ELSE error,
        !.updated_at = t]

\* update_sub_task, lines 229-236: the workflow after the call
RunningMessage(sub_task_name) == "running: " \o JoinParts(sub_task_name)

promotes_any(wf_status, status) == status = "RUNNING"
promote_never(wf_status, status) == FALSE
promotes(wf_status, status) == status = "RUNNING" /\ wf_status = "PENDING"

workflow_after_update(wf, sub_task_name, sub_task_type, status, message, progress, outputs, error, t) ==
    LET old == IF HasSub(wf.sub_tasks, sub_task_name)
               THEN GetSub(wf.sub_tasks, sub_task_name)
               ELSE SubTask(sub_task_type, t)
        st == updated_sub_task(old, status, message, progress, outputs, error, t)
        wf1 == [wf EXCEPT !.sub_tasks = PutSub(@, sub_task_name, st),
                          !.updated_at = t,
                          !.status = IF promotes(wf.status, status) THEN "RUNNING" ELSE @,
                          !.message = IF promotes(wf.status, status)
                                      THEN RunningMessage(sub_task_name) ELSE @]
    IN sync_subtask_to_file_info(wf1, sub_task_name)

\* update_sub_task, line 249: the updates flushed at once
flush_now(is_new_subtask, status) ==
    is_new_subtask \/ status = "COMPLETED" \/ status = "FAILED"

\* update_workflow_status, lines 301-307
workflow_after_status(wf, status, message, error, t) ==
    [wf EXCEPT !.status = IF ~IsNone(error) /\ Val(error) # "" THEN "FAILED" ELSE status,
               !.message = IF ~IsNone(message) /\ Val(message) # "" THEN Val(message) ELSE @,
               !.error = IF ~IsNone(error) /\ Val(error) # "" THEN error ELSE @,
               !.updated_at = t]

\* update_workflow_artifacts, lines 317-318
workflow_after_artifacts(wf, artifacts, t) ==
    [wf EXCEPT !.artifacts = dict_update(@, artifacts), !.updated_at = t]

\* delete_sub_task, lines 280-281
workflow_after_delete_reset(wf, sub_task_name, t) ==
    [wf EXCEPT !.sub_tasks = DelSub(@, sub_task_name), !.artifacts = EmptyDict,
               !.updated_at = t]
workflow_keep_sub_task(wf, sub_task_name, t) == [wf EXCEPT !.updated_at = t]
workflow_after_delete(wf, sub_task_name, t) ==
    [wf EXCEPT !.sub_tasks = DelSub(@, sub_task_name), !.updated_at = t]

----------------------------------------------------------------------------
(* Status projection: determine_stage, calculate_progress, get_simple_status *)

\* the sub-tasks whose name starts with prefix + '_', in dict order
SubsWithPrefix(sts, prefix) ==
    SelectSeq(sts, LAMBDA e : StartsWith(e.name, prefix))

ClippingPrefix == <<"clipping">>
ShortsPrefix == <<"shorts", "creation">>

HasStatus(sts, status) == \E i \in 1..Len(sts) : sts[i].st.status = status

\* next((st for st in tasks if st.status == status), None), known to exist
FirstWithStatus(sts, status) ==
    sts[CHOOSE i \in 1..Len(sts) :
            /\ sts[i].st.status = status
            /\ \A j \in 1..(i - 1) : sts[j].st.status # status].st

SubIs(sts, n, status) == HasSub(sts, n) /\ GetSub(sts, n).status = status

determine_stage(wf) ==
    LET sub_tasks == wf.sub_tasks
        clipping_tasks == SubsWithPrefix(sub_tasks, ClippingPrefix)
        shorts_tasks == SubsWithPrefix(sub_tasks, ShortsPrefix)
        active_clipping == HasStatus(clipping_tasks, "RUNNING")
        completed_clipping == HasStatus(clipping_tasks, "COMPLETED")
        active_shorts == HasStatus(shorts_tasks, "RUNNING")
        completed_shorts == HasStatus(shorts_tasks, "COMPLETED")
        initial(status) == SubIs(sub_tasks, <<"initial", "processing">>, status)
        transcription(status) == SubIs(sub_tasks, <<"transcription">>, status)
        ai_generation(status) == SubIs(sub_tasks, <<"ai", "clip", "generation">>, status)
    IN IF HasStatus(sub_tasks, "FAILED") THEN "failed"
       ELSE IF wf.status = "FAILED" THEN "failed"
       ELSE IF initial("RUNNING") THEN "downloading"
       ELSE IF initial("COMPLETED") /\ ~HasSub(sub_tasks, <<"transcription">>)
            THEN "waiting_transcription"
       ELSE IF initial("COMPLETED") /\ transcription("RUNNING") THEN "transcribing"
       ELSE IF initial("COMPLETED") /\ transcription("COMPLETED")
            THEN IF ai_generation("RUNNING") THEN "ai_generation"
                 ELSE IF ai_generation("COMPLETED")
                      THEN IF active_clipping THEN "clipping"
                           ELSE IF completed_clipping
                                THEN IF active_shorts THEN "shorts_creation"
                                     ELSE IF completed_shorts THEN "completed"
                                     ELSE IF dict_get(FirstWithStatus(clipping_tasks,
                                                 "COMPLETED").outputs, "clips", <<>>) # <<>>
                                          THEN "waiting_shorts"
                                     ELSE "clipping"
                           ELSE "ai_generation"
                 ELSE "waiting_transcription"
       ELSE IF completed_shorts THEN "completed"
       ELSE "downloading"

\* the weights of calculate_progress
WeightInitial == 20
WeightTranscription == 10
WeightAi == 20
WeightClipping == 20
WeightShorts == 30

\* what a stage's sub-task adds to total_progress, times 100
StageProgress(st, weight) ==
    IF st.status = "COMPLETED" THEN 100 * weight
    ELSE IF st.status = "RUNNING" THEN st.progress * weight
    ELSE 0

\* total_progress (times 100) and current_weight of calculate_progress
ProgressTotals(sts) ==
    LET Slot(present, st, started_before, weight) ==
            IF present THEN [total |-> StageProgress(st, weight), weight |-> weight]
            ELSE IF started_before THEN [total |-> 0, weight |-> weight]
            ELSE [total |-> 0, weight |-> 0]
        hasI == HasSub(sts, <<"initial", "processing">>)
        hasT == HasSub(sts, <<"transcription">>)
        hasA == HasSub(sts, <<"ai", "clip", "generation">>)
        clipping_tasks == SubsWithPrefix(sts, ClippingPrefix)
        shorts_tasks == SubsWithPrefix(sts, ShortsPrefix)
        hasC == Len(clipping_tasks) > 0
        hasS == Len(shorts_tasks) > 0
        i == Slot(hasI, GetSub(sts, <<"initial", "processing">>), FALSE, WeightInitial)
        t == Slot(hasT, GetSub(sts, <<"transcription">>),
                  SubIs(sts, <<"initial", "processing">>, "COMPLETED"), WeightTranscription)
        a == Slot(hasA, GetSub(sts, <<"ai", "clip", "generation">>),
                  SubIs(sts, <<"transcription">>, "COMPLETED"), WeightAi)
        c == Slot(hasC, clipping_tasks[1].st,
                  SubIs(sts, <<"ai", "clip", "generation">>, "COMPLETED"), WeightClipping)
        sh == Slot(hasS, shorts_tasks[1].st,
                   hasC /\ clipping_tasks[1].st.status = "COMPLETED", WeightShorts)
    IN [total |-> i.total + t.total + a.total + c.total + sh.total,
        weight |-> i.weight + t.weight + a.weight + c.weight + sh.weight]

\* calculate_progress, in hundredths of a percent, rounded down
calculate_progress(wf) ==
    LET pt == ProgressTotals(wf.sub_tasks)
        value == (pt.total * 100) \div pt.weight
    IN IF Len(wf.sub_tasks) = 0 \/ pt.weight = 0 THEN 0
       ELSE IF value > 10000 THEN 10000 ELSE value

\* round(progress, 1), in tenths of a percent
Round1(hundredths) == (hundredths + 5) \div 10

get_simple_status_by_workflow(wf) ==
    [status |-> IF wf.status = "COMPLETED" THEN "completed"
                ELSE IF wf.status = "FAILED" THEN "failed" ELSE "processing",
     stage |-> determine_stage(wf),
     progress |-> Round1(calculate_progress(wf))]

get_simple_status(wf) ==
    LET stage == determine_stage(wf)
    IN [status |-> IF stage = "completed" THEN "completed"
                   ELSE IF stage = "failed" THEN "failed" ELSE "processing",
        stage |-> stage,
        progress |-> Round1(calculate_progress(wf))]

----------------------------------------------------------------------------
(* TaskManager methods as functions of the registry [tasks, dirty, disk] at
   time t.  Each is the whole method: the locked section, the mirror
   synchronisation and the flush to disk that follows it. *)

Registry == [tasks |-> tasks, dirty |-> dirty, disk |-> disk]

Saved(reg, ts, is_dirty, write_ok) ==
    LET sv == save_tasks_to_disk(ts, is_dirty, reg.disk, write_ok)
    IN [tasks |-> ts, dirty |-> sv.dirty, disk |-> sv.disk]

reg_create_workflow(reg, t, task_id, name, artifacts, write_ok) ==
    Saved(reg, [tid \in (DOMAIN reg.tasks) \cup {task_id} |->
                   IF tid = task_id THEN WorkflowTask(task_id, name, artifacts, t)
                   ELSE reg.tasks[tid]], TRUE, write_ok)

reg_update_sub_task(reg, t, task_id, sub_task_name, sub_task_type, status, message, progress, outputs, error, write_ok) ==
    IF task_id \notin DOMAIN reg.tasks THEN reg
    ELSE LET wf == reg.tasks[task_id]
             is_new_subtask == ~HasSub(wf.sub_tasks, sub_task_name)
             ts == [reg.tasks EXCEPT ![task_id] =
                       workflow_after_update(wf, sub_task_name, sub_task_type,
                           status, message, progress, outputs, error, t)]
         IN IF flush_now(is_new_subtask, status)
            THEN Saved(reg, ts, TRUE, write_ok)
            ELSE [tasks |-> ts, dirty |-> TRUE, disk |-> reg.disk]

reg_delete_sub_task(reg, t, task_id, sub_task_name, write_ok) ==
    IF task_id \in DOMAIN reg.tasks /\ HasSub(reg.tasks[task_id].sub_tasks, sub_task_name)
    THEN Saved(reg, [reg.tasks EXCEPT ![task_id] =
                        workflow_after_delete(@, sub_task_name, t)], TRUE, write_ok)
    ELSE reg

reg_update_workflow_status(reg, t, task_id, status, message, error) ==
    IF task_id \notin DOMAIN reg.tasks THEN reg
    ELSE [reg EXCEPT !.tasks[task_id] = workflow_after_status(@, status, message, error, t),
                     !.dirty = TRUE]

reg_update_workflow_artifacts(reg, t, task_id, artifacts) ==
    IF task_id \notin DOMAIN reg.tasks THEN reg
    ELSE [reg EXCEPT !.tasks[task_id] = workflow_after_artifacts(@, artifacts, t),
                     !.dirty = TRUE]

SetRegistry(reg) ==
    /\ tasks' = reg.tasks
    /\ dirty' = reg.dirty
    /\ disk' = reg.disk

----------------------------------------------------------------------------
(* Registry calls as actions *)

create_workflow(task_id, name, artifacts, write_ok) ==
    /\ SetRegistry(reg_create_workflow(Registry, now, task_id, name, artifacts, write_ok))
    /\ last' = [op |-> "create_workflow", task_id |-> task_id,
                existed |-> task_id \in DOMAIN tasks]
    /\ UNCHANGED now

update_sub_task(task_id, sub_task_name, sub_task_type, status, message, progress, outputs, error, write_ok) ==
    /\ SetRegistry(reg_update_sub_task(Registry, now, task_id, sub_task_name,
           sub_task_type, status, message, progress, outputs, error, write_ok))
    /\ last' = [op |-> "update_sub_task", task_id |-> task_id,
                name |-> sub_task_name, type |-> sub_task_type, status |-> status,
                message |-> message, progress |-> progress, outputs |-> outputs,
                error |-> error]
    /\ UNCHANGED now

delete_sub_task(task_id, sub_task_name, write_ok) ==
    /\ SetRegistry(reg_delete_sub_task(Registry, now, task_id, sub_task_name, write_ok))
    /\ last' = [op |-> "delete_sub_task", task_id |-> task_id,
                name |-> sub_task_name,
                ret |-> /\ task_id \in DOMAIN tasks
                        /\ HasSub(tasks[task_id].sub_tasks, sub_task_name)]
    /\ UNCHANGED now

update_workflow_status(task_id, status, message, error) ==
    /\ SetRegistry(reg_update_workflow_status(Registry, now, task_id, status, message, error))
    /\ last' = [op |-> "update_workflow_status", task_id |-> task_id,
                status |-> status, error |-> error]
    /\ UNCHANGED now

update_workflow_artifacts(task_id, artifacts) ==
    /\ SetRegistry(reg_update_workflow_artifacts(Registry, now, task_id, artifacts))
    /\ last' = [op |-> "update_workflow_artifacts", task_id |-> task_id,
                artifacts |-> artifacts]
    /\ UNCHANGED now

\* _periodic_save: one wake-up of the background ticker
periodic_save(write_ok) ==
    /\ dirty
    /\ SetRegistry(Saved(Registry, tasks, dirty, write_ok))
    /\ last' = [op |-> "save_tasks_to_disk", written |-> write_ok]
    /\ UNCHANGED now

\* The process ends (the atexit hook saves on a clean exit, nothing is saved on
\* a crash) and a fresh TaskManager loads the snapshot.
Restart(clean_exit, write_ok) ==
    LET sv == IF clean_exit THEN Saved(Registry, tasks, dirty, write_ok) ELSE Registry
    IN /\ SetRegistry([tasks |-> loaded_tasks(sv.disk), dirty |-> FALSE, disk |-> sv.disk])
       /\ last' = [op |-> "load_tasks_from_disk", saved |-> clean_exit /\ write_ok]
       /\ UNCHANGED now

----------------------------------------------------------------------------
(* Names and inputs shared by the specifications *)

Now0 == 4

W1 == "w1"
WorkflowIds == {W1}

InitialProcessing == <<"initial", "processing">>
Transcription == <<"transcription">>
AiClipGeneration == <<"ai", "clip", "generation">>
S1 == <<"s1">>
U1 == <<"u1">>
ClippingName == <<"clipping">> \o S1 \o U1 \o strftime(Now0)
ShortsName == <<"shorts", "creation">> \o S1 \o U1 \o strftime(Now0)

\* the sub_task_type the callers pass for a name
SubTaskType(name) ==
    IF name = InitialProcessing THEN "processing"
    ELSE IF name = Transcription THEN "transcription"
    ELSE IF name = AiClipGeneration THEN "ai_clip_generation"
    ELSE IF StartsWith(name, <<"shorts", "creation">>) THEN "shorts_creation"
    ELSE "clipping"

\* one more call of the environment, at most MaxOps of them
MaxOps == 3

\* at most MaxCrashes restarts of the process
MaxCrashes == 1

Call == ops < MaxOps /\ ops' = ops + 1 /\ UNCHANGED autoVars

InitReg ==
    /\ tasks = EmptyDict
    /\ dirty = FALSE
    /\ disk = None
    /\ now = Now0
    /\ last = [op |-> "init"]
    /\ ops = 0
    /\ thr = EmptyDict
    /\ fs = EmptyDict
    /\ hist = EmptyDict

----------------------------------------------------------------------------
(* SpecReg: the registry under arbitrary callers; every write succeeds *)

RegNames == {InitialProcessing, ClippingName}
RegOutputs == {None, Some([k1 |-> 1]), Some([k2 |-> 1])}
RegErrors == {None, Some("e1")}
RegArtifacts == {EmptyDict, [auto_mode |-> TRUE]}

CreateWorkflow ==
    \E id \in WorkflowIds, a \in RegArtifacts :
        Call /\ create_workflow(id, "wf", a, TRUE)

UpdateSubTask ==
    \E id \in WorkflowIds, n \in RegNames, s \in TaskStatus, o \in RegOutputs,
       e \in RegErrors :
        Call /\ update_sub_task(id, n, SubTaskType(n), s, None, None, o, e, TRUE)

DeleteSubTask ==
    \E id \in WorkflowIds, n \in RegNames : Call /\ delete_sub_task(id, n, TRUE)

UpdateWorkflowStatus ==
    \E id \in WorkflowIds, s \in TaskStatus, e \in RegErrors :
        Call /\ update_workflow_status(id, s, None, e)

UpdateWorkflowArtifacts ==
    \E id \in WorkflowIds, a \in RegArtifacts :
        Call /\ update_workflow_artifacts(id, a)

PeriodicSave == periodic_save(TRUE) /\ UNCHANGED <<ops, thr, fs, hist>>

NextReg ==
    \/ CreateWorkflow
    \/ UpdateSubTask
    \/ DeleteSubTask
    \/ UpdateWorkflowStatus
    \/ UpdateWorkflowArtifacts
    \/ PeriodicSave

SpecReg == InitReg /\ [][NextReg]_vars

----------------------------------------------------------------------------
(* SpecStore: the snapshot across restarts; a write may fail *)

StoreNames == {InitialProcessing, Transcription}
StoreOutputs == {None, Some([k1 |-> 1])}

StoreCreate ==
    \E id \in WorkflowIds, ok \in BOOLEAN :
        Call /\ create_workflow(id, "wf", [auto_mode |-> TRUE], ok)

StoreUpdate ==
    \E id \in WorkflowIds, n \in StoreNames, s \in TaskStatus, o \in StoreOutputs,
       e \in RegErrors, ok \in BOOLEAN :
        Call /\ update_sub_task(id, n, SubTaskType(n), s, None, None, o, e, ok)

StoreStatus ==
    \E id \in WorkflowIds, s \in TaskStatus, e \in RegErrors :
        Call /\ update_workflow_status(id, s, Some("m2"), e)

StoreSave == \E ok \in BOOLEAN : periodic_save(ok) /\ UNCHANGED <<ops, thr, fs, hist>>

ProcessRestart ==
    \E clean \in BOOLEAN, ok \in BOOLEAN : Call /\ Restart(clean, ok)

NextStore ==
    \/ StoreCreate
    \/ StoreUpdate
    \/ StoreStatus
    \/ StoreSave
    \/ ProcessRestart

SpecStore == InitReg /\ [][NextStore]_vars

----------------------------------------------------------------------------
(* SpecFlush: the five mutating operations and the background saver, with
   writes that may fail and no restart.  save_tasks_to_disk holds the
   registry lock from the snapshot to the clearing of the flag (lines
   106-118) and every mutating operation takes the same lock, so a save is
   one step.  The saver thread loops for the life of the process (93-98),
   and the disk does not refuse every write for ever: a succeeding write of
   the saver is weakly fair. *)

FlushCreate ==
    \E id \in WorkflowIds, ok \in BOOLEAN :
        Call /\ create_workflow(id, "wf", [auto_mode |-> TRUE], ok)

FlushUpdate ==
    \E id \in WorkflowIds, n \in StoreNames, s \in TaskStatus, o \in StoreOutputs,
       e \in RegErrors, ok \in BOOLEAN :
        Call /\ update_sub_task(id, n, SubTaskType(n), s, None, None, o, e, ok)

FlushDelete ==
    \E id \in WorkflowIds, n \in StoreNames, ok \in BOOLEAN :
        Call /\ delete_sub_task(id, n, ok)

FlushStatus ==
    \E id \in WorkflowIds, s \in TaskStatus, e \in RegErrors :
        Call /\ update_workflow_status(id, s, Some("m2"), e)

FlushArtifacts ==
    \E id \in WorkflowIds, a \in RegArtifacts :
        Call /\ update_workflow_artifacts(id, a)

\* _periodic_save: a wake-up of the saver whose write succeeds, or fails
TickerWrites == periodic_save(TRUE) /\ UNCHANGED <<ops, thr, fs, hist>>
TickerFails == periodic_save(FALSE) /\ UNCHANGED <<ops, thr, fs, hist>>

NextFlush ==
    \/ FlushCreate
    \/ FlushUpdate
    \/ FlushDelete
    \/ FlushStatus
    \/ FlushArtifacts
    \/ TickerWrites
    \/ TickerFails

FairFlush == WF_vars(TickerWrites)

SpecFlush == InitReg /\ [][NextFlush]_vars /\ FairFlush

----------------------------------------------------------------------------
(* SpecProg: one workflow whose stages are updated in stage order, each going
   RUNNING with non-decreasing progress and then COMPLETED *)

StageOrder == <<InitialProcessing, Transcription, AiClipGeneration, ClippingName, ShortsName>>

ProgValues == {0, 50, 100}
ProgOutputs == {None, Some([clips |-> <<"c1">>])}

StagesLeft(sts) == {i \in 1..Len(StageOrder) : ~SubIs(sts, StageOrder[i], "COMPLETED")}
CurrentStage(sts) == CHOOSE i \in StagesLeft(sts) : \A j \in StagesLeft(sts) : i <= j

ProgCreate ==
    /\ W1 \notin DOMAIN tasks
    /\ create_workflow(W1, "wf", [auto_mode |-> TRUE], TRUE)
    /\ UNCHANGED <<ops, thr, fs, hist>>

StageRunning ==
    /\ W1 \in DOMAIN tasks
    /\ StagesLeft(tasks[W1].sub_tasks) # {}
    /\ LET n == StageOrder[CurrentStage(tasks[W1].sub_tasks)]
           reached == IF HasSub(tasks[W1].sub_tasks, n)
                      THEN GetSub(tasks[W1].sub_tasks, n).progress ELSE 0
       IN \E p \in ProgValues :
              /\ p >= reached
              /\ update_sub_task(W1, n, SubTaskType(n), "RUNNING", None, Some(p), None, None, TRUE)
    /\ UNCHANGED <<ops, thr, fs, hist>>

StageCompleted ==
    /\ W1 \in DOMAIN tasks
    /\ StagesLeft(tasks[W1].sub_tasks) # {}
    /\ LET n == StageOrder[CurrentStage(tasks[W1].sub_tasks)]
       IN /\ SubIs(tasks[W1].sub_tasks, n, "RUNNING")
          /\ \E p \in {None, Some(100)}, o \in ProgOutputs :
                 update_sub_task(W1, n, SubTaskType(n), "COMPLETED", None, p, o, None, TRUE)
    /\ UNCHANGED <<ops, thr, fs, hist>>

NextProg ==
    \/ ProgCreate
    \/ StageRunning
    \/ StageCompleted

SpecProg == InitReg /\ [][NextProg]_vars

\* the process stops, cleanly or not, and a fresh TaskManager loads the file
ProgRestart ==
    \E clean \in BOOLEAN :
        /\ ops < MaxCrashes
        /\ ops' = ops + 1
        /\ Restart(clean, TRUE)
        /\ UNCHANGED autoVars

NextResume == NextProg \/ ProgRestart

\* SpecResume: the same workflow with a restart of the process at any point
SpecResume == InitReg /\ [][NextResume]_vars


----------------------------------------------------------------------------
(* Threads of the automatic mode.  A thread is [pc, stk, name]: its position
   in its own code, the stack of auto_continue_workflow calls it is inside
   (one frame per call; the call at simple_api.py:616 is recursive), and for
   a worker the sub-task name it was started with.  The code of a thread is
   cut into steps at the points where another thread's write can change what
   it does next: between the debounce read and the stamp, between the flag
   test and the flag set, between the evaluation of the stage guards and the
   launch, around each sleep, and before the finally block. *)

ClipWorkerIds == <<"clip1", "clip2">>
ClipWorkers == {ClipWorkerIds[i] : i \in 1..Len(ClipWorkerIds)}
Threads == {"init", "colab", "poll"} \cup ClipWorkers

MaxTicks == 2
MaxCount == 2
MaxRx == 2
MaxPolls == 1
MaxDeletes == 1

HalfSecond == TicksPerSecond \div 2

VideoPath == "video.mp4"
AudioFilename == "audio.mp3"
TranscriptionSimplePath == "t_simple.txt"
TranscriptionDetailedPath == "t_detailed.json"
ClipPath == "clip_0.mp4"

\* save_path of _generate_ai_clips_direct: the name carries the second of writing
AiClipsPath(t) == "ai_clips_" \o ToString(t \div TicksPerSecond) \o ".json"

Exists(path) == path \in DOMAIN fs
Written(path, content) ==
    [q \in (DOMAIN fs) \cup {path} |-> IF q = path THEN content ELSE fs[q]]

\* the same without the test of 'auto_mode'
ArtifactInAutoMode(key, default) ==
    IF key = "auto_mode" THEN TRUE ELSE dict_get(tasks[W1].artifacts, key, default)
Artifact(key, default) == dict_get(tasks[W1].artifacts, key, default)
SubTasks == tasks[W1].sub_tasks

\* a frame of auto_continue_workflow: its arguments and local variables
Frame(force_check, inv) ==
    [pc |-> "start", force_check |-> force_check, inv |-> inv, wake |-> 0,
     file_path |-> "", clipping_name |-> <<>>, existing_clips |-> <<>>, ret |-> FALSE]

IdleThread == [pc |-> "idle", stk |-> <<>>, name |-> <<>>]

Top(t) == thr[t].stk[Len(thr[t].stk)]
InAuto(t, pc) == Len(thr[t].stk) > 0 /\ Top(t).pc = pc
SetTop(t, frame) == [thr EXCEPT ![t].stk[Len(thr[t].stk)] = frame]
Goto(t, pc) == SetTop(t, [Top(t) EXCEPT !.pc = pc])

\* where each caller goes on when its call of auto_continue_workflow returns
AfterCall(pc) ==
    CASE pc = "i_auto" -> "done"
      [] pc = "c_auto" -> "idle"
      [] pc = "p_auto" -> "idle"
      [] pc = "w_auto" -> "done"

\* a caller that keeps the returned value goes on at a place that tells it
AfterReturn(pc, ret) ==
    IF pc = "d_auto" THEN (IF ret THEN "d_true" ELSE "d_false") ELSE AfterCall(pc)

\* the thread calls auto_continue_workflow(task_id, force_check)
Calling(th, pc, force_check) == [th EXCEPT !.pc = pc, !.stk = <<Frame(force_check, 0)>>]

\* the top frame returns ret: to the frame that made the recursive call, which
\* returns the same value through its finally block, or to the thread's caller
Returning(t, ret) ==
    LET n == Len(thr[t].stk)
        rest == SubSeq(thr[t].stk, 1, n - 1)
    IN IF n = 1
       THEN [thr EXCEPT ![t].stk = <<>>, ![t].pc = AfterReturn(@, ret)]
       ELSE [thr EXCEPT ![t].stk =
                [rest EXCEPT ![n - 1] = [@ EXCEPT !.pc = "finally", !.ret = ret]]]

\* return False from inside the inner try: the finally block runs first
Refusing(t) ==
    SetTop(t, [Top(t) EXCEPT !.pc = "finally", !.ret = FALSE, !.wake = 0, !.file_path = ""])

Bump(n) == IF n < MaxCount THEN n + 1 ELSE n

\* one more launch of a stage, counted for the invocation that made it
Launched(stage, inv) ==
    [hist EXCEPT !.launched[stage] = Bump(@),
                 !.invs = IF inv > 0 THEN [@ EXCEPT ![inv].n = Bump(@)] ELSE @]

\* The updated_at stamps, which nothing in the automaton reads, are not followed
\* here: they stay at the time of creation.
Stamp == Now0

\* every write of the snapshot file succeeds
DiskWritable == TRUE

SetArtifacts(patch) == SetRegistry(reg_update_workflow_artifacts(Registry, Stamp, W1, patch))

SetSubTask(name, status, message, progress, outputs, error) ==
    SetRegistry(reg_update_sub_task(Registry, Stamp, W1, name, SubTaskType(name),
                    status, message, progress, outputs, error, DiskWritable))

----------------------------------------------------------------------------
(* auto_continue_workflow, simple_api.py:540-866 *)

\* the debounce test of lines 565-567
debounced(force_check, t, last_check) ==
    ~force_check /\ t - last_check < TicksPerSecond

\* lines 553-569: the workflow, auto_mode, the debounce
AutoStart(t) ==
    /\ InAuto(t, "start")
    /\ LET f == Top(t)
           tracked == ~f.force_check /\ Len(thr[t].stk) = 1
           h == IF tracked THEN [hist EXCEPT !.invs = Append(@, [t0 |-> now, n |-> 0])]
                ELSE hist
           f1 == IF tracked THEN [f EXCEPT !.inv = Len(h.invs)] ELSE f
       IN /\ hist' = h
          /\ thr' = IF W1 \notin DOMAIN tasks THEN Returning(t, FALSE)
                    ELSE IF ~Artifact("auto_mode", FALSE) THEN Returning(t, FALSE)
                    ELSE IF debounced(f.force_check, now, Artifact("_last_auto_continue", 0))
                         THEN Returning(t, FALSE)
                    ELSE SetTop(t, [f1 EXCEPT !.pc = "stamp"])
    /\ UNCHANGED <<regVars, now, last, ops, fs>>

\* lines 572-578: the stamp, then the flag test, whose return is outside the
\* inner try (no finally)
AutoStamp(t) ==
    /\ InAuto(t, "stamp")
    /\ SetArtifacts([k \in {"_last_auto_continue"} |-> now])
    /\ thr' = IF Artifact("_auto_continue_processing", FALSE)
              THEN Returning(t, FALSE) ELSE Goto(t, "set")
    /\ UNCHANGED <<now, last, ops, fs, hist>>

\* lines 580-581
AutoSet(t) ==
    /\ InAuto(t, "set")
    /\ SetArtifacts([k \in {"_auto_continue_processing"} |-> TRUE])
    /\ thr' = Goto(t, "stages")
    /\ UNCHANGED <<now, last, ops, fs, hist>>

\* the guard of stage 1, lines 592-594
stage1_guard(sts) ==
    /\ SubIs(sts, InitialProcessing, "COMPLETED")
    /\ SubIs(sts, Transcription, "COMPLETED")
    /\ ~HasSub(sts, AiClipGeneration)

\* the inputs of stage 1, lines 596-607
stage1_inputs ==
    /\ Artifact("system_prompt_id", <<>>) # <<>>
    /\ Artifact("user_prompt_id", <<>>) # <<>>
    /\ Artifact("transcription_simple_path", "") # ""
    /\ Exists(Artifact("transcription_simple_path", ""))

\* the guard of stage 2, lines 622-625
stage2_guard(sts) ==
    /\ SubIs(sts, AiClipGeneration, "COMPLETED")
    /\ Len(SubsWithPrefix(sts, ClippingPrefix)) = 0

\* the clips of the AI file that carry both time marks, lines 665-693
clips_for_clipper(clips_data) ==
    SelectSeq(clips_data, LAMBDA clip : clip.start # "" /\ clip.end # "")

\* the inputs of stage 2, lines 640-709
stage2_inputs ==
    LET ai_clips_files == Artifact("ai_clips_files", <<>>)
    IN /\ Len(ai_clips_files) > 0
       /\ Exists(ai_clips_files[1].path)
       /\ Len(clips_for_clipper(fs[ai_clips_files[1].path])) > 0
       /\ Artifact("video_path", "") # ""
       /\ Exists(Artifact("video_path", ""))

\* the guard of stage 3, lines 755-762
stage3_guard(sts) ==
    LET clipping_tasks_list == SubsWithPrefix(sts, ClippingPrefix)
    IN /\ Len(clipping_tasks_list) > 0
       /\ clipping_tasks_list[1].st.status = "COMPLETED"
       /\ Len(SubsWithPrefix(sts, ShortsPrefix)) = 0

\* existing_clips, lines 767-777
existing_clips(clipping_task) ==
    SelectSeq(dict_get(clipping_task.outputs, "clips", <<>>), Exists)

\* lines 755-780: the frame goes on to launch the shorts stage, or returns False
Stage3(t) ==
    LET clipping_tasks_list == SubsWithPrefix(SubTasks, ClippingPrefix)
    IN IF ~stage3_guard(SubTasks) THEN Refusing(t)
       ELSE IF Len(existing_clips(clipping_tasks_list[1].st)) = 0 THEN Refusing(t)
       ELSE SetTop(t, [Top(t) EXCEPT
               !.pc = "shorts_launch", !.wake = 0, !.file_path = "",
               !.clipping_name = clipping_tasks_list[1].name,
               !.existing_clips = existing_clips(clipping_tasks_list[1].st)])

\* lines 584-780: the guards of the three stages, evaluated in order on the
\* sub-tasks, the artifacts and the files as they are
AutoStages(t) ==
    /\ InAuto(t, "stages")
    /\ thr' = IF stage1_guard(SubTasks)
              THEN IF stage1_inputs THEN Goto(t, "ai_start") ELSE Refusing(t)
              ELSE IF stage2_guard(SubTasks)
              THEN IF stage2_inputs
                   THEN SetTop(t, [Top(t) EXCEPT !.pc = "clip_launch",
                                      !.file_path = Artifact("ai_clips_files", <<>>)[1].path])
                   ELSE Refusing(t)
              ELSE Stage3(t)
    /\ UNCHANGED <<regVars, now, last, ops, fs, hist>>

\* _generate_ai_clips_direct, lines 446-450: the sub-task goes RUNNING
AutoAiStart(t) ==
    /\ InAuto(t, "ai_start")
    /\ IF Artifact("transcription_simple_path", "") = ""
       THEN /\ thr' = Refusing(t)
            /\ UNCHANGED <<regVars, hist>>
       ELSE /\ SetSubTask(AiClipGeneration, "RUNNING", Some("generating"), None, None, None)
            /\ hist' = Launched("ai", Top(t).inv)
            /\ thr' = Goto(t, "ai_work")
    /\ UNCHANGED <<now, last, ops, fs>>

\* what AIService.generate_clips_from_transcription may return
AiClip == [start |-> "00:01", end |-> "00:02"]
AiResults ==
    {[success |-> FALSE, clips |-> <<>>], [success |-> TRUE, clips |-> <<>>],
     [success |-> TRUE, clips |-> <<AiClip>>]}

FileInfo(path, system_prompt_id, user_prompt_id, t) ==
    [path |-> path, system_prompt_id |-> system_prompt_id,
     user_prompt_id |-> user_prompt_id, created_at |-> t, sub_tasks |-> EmptyDict]

\* _generate_ai_clips_direct, lines 452-537: the AI file is written, listed in
\* the artifacts and the sub-task COMPLETED, and the sleep of line 615 begins;
\* or an exception leaves the sub-task RUNNING and is caught at line 617
AutoAiWork(t) ==
    /\ InAuto(t, "ai_work")
    /\ \E ai_result \in AiResults :
        LET duration == [k \in {"video_duration"} |-> 1500]
            reg1 == IF Artifact("video_duration", 0) = 0 /\ Exists(Artifact("video_path", ""))
                    THEN reg_update_workflow_artifacts(Registry, Stamp, W1, duration)
                    ELSE Registry
            save_path == AiClipsPath(now)
            file_info == FileInfo(save_path, Artifact("system_prompt_id", <<>>),
                                  Artifact("user_prompt_id", <<>>), now)
            reg2 == reg_update_workflow_artifacts(reg1, Stamp, W1,
                        [k \in {"ai_metadata"} |-> ai_result.clips])
            reg3 == reg_update_workflow_artifacts(reg2, Stamp, W1,
                        [k \in {"ai_clips_files"} |->
                            <<file_info>> \o Artifact("ai_clips_files", <<>>)])
            reg4 == reg_update_sub_task(reg3, Stamp, W1, AiClipGeneration,
                        "ai_clip_generation", "COMPLETED", Some("ai file written"), None,
                        Some([k \in {"ai_clips_file"} |-> save_path]), None, DiskWritable)
        IN IF ~Exists(Artifact("transcription_simple_path", ""))
           THEN /\ thr' = Refusing(t)
                /\ UNCHANGED <<regVars, fs>>
           ELSE IF ~ai_result.success
           THEN /\ thr' = Refusing(t)
                /\ SetRegistry(reg1)
                /\ UNCHANGED fs
           ELSE /\ thr' = SetTop(t, [Top(t) EXCEPT !.pc = "ai_sleep",
                                         !.wake = now + TicksPerSecond])
                /\ SetRegistry(reg4)
                /\ fs' = Written(save_path, ai_result.clips)
    /\ UNCHANGED <<now, last, ops, hist>>

\* lines 615-616: after the sleep, the recursive call with force_check=True
AutoAiSleep(t) ==
    /\ InAuto(t, "ai_sleep")
    /\ now >= Top(t).wake
    /\ thr' = [SetTop(t, [Top(t) EXCEPT !.pc = "recursing", !.wake = 0])
                  EXCEPT ![t].stk = Append(@, Frame(TRUE, Top(t).inv))]
    /\ UNCHANGED <<regVars, now, last, ops, fs, hist>>

RunningMirror(message, t) ==
    [status |-> "running", message |-> message, progress |-> 0, error |-> None,
     outputs |-> EmptyDict, updated_at |-> t]

\* file_info['sub_tasks'][key] = mirror on the record with that path, which is
\* then stored at index file_index too (lines 716-729, 820-832)
mirrored(ai_clips_files, path, file_index, key, mirror) ==
    LET hits == {i \in 1..Len(ai_clips_files) : ai_clips_files[i].path = path}
        file_info == [ai_clips_files[CHOOSE i \in hits : \A j \in hits : i <= j]
                         EXCEPT !.sub_tasks = dict_update(@, [k \in {key} |-> mirror])]
    IN [i \in 1..Len(ai_clips_files) |->
           IF i = file_index \/ ai_clips_files[i].path = path
           THEN file_info ELSE ai_clips_files[i]]

FreeWorkers == {i \in 1..Len(ClipWorkerIds) : thr[ClipWorkerIds[i]].pc = "idle"}

\* lines 711-742: the mirror, start_clipping_task, and the sleep begins.  The
\* worker creates its sub-task later, in its own thread.
AutoClipLaunch(t) ==
    /\ InAuto(t, "clip_launch")
    /\ FreeWorkers # {}
    /\ LET f == Top(t)
           ai_clips_files == Artifact("ai_clips_files", <<>>)
           after == mirrored(ai_clips_files, f.file_path, 1, "clipping",
                             RunningMirror("clipping started", Stamp))
           w == ClipWorkerIds[CHOOSE i \in FreeWorkers : \A j \in FreeWorkers : i <= j]
       IN /\ SetArtifacts([k \in {"ai_clips_files"} |-> after])
          /\ thr' = [SetTop(t, [f EXCEPT !.pc = "clip_sleep", !.wake = now + HalfSecond,
                                         !.file_path = ""])
                        EXCEPT ![w] = [pc |-> "w_begin", stk |-> <<>>,
                                       name |-> generate_subtask_name(after[1], <<"clipping">>)]]
          /\ hist' = Launched("clipping", f.inv)
    /\ UNCHANGED <<now, last, ops, fs>>

\* lines 742-780: after the sleep, stage 3 on the sub-tasks as they are then
AutoClipSleep(t) ==
    /\ InAuto(t, "clip_sleep")
    /\ now >= Top(t).wake
    /\ thr' = Stage3(t)
    /\ UNCHANGED <<regVars, now, last, ops, fs, hist>>

\* the record the shorts stage is tied to, lines 793-811: index, or 0 for none
shorts_file_index(ai_clips_files, clipping_name) ==
    LET hits == IF Len(clipping_name) < 4 THEN {}
                ELSE {i \in 1..Len(ai_clips_files) :
                        /\ ai_clips_files[i].system_prompt_id = <<clipping_name[2]>>
                        /\ ai_clips_files[i].user_prompt_id = <<clipping_name[3]>>}
    IN IF Len(ai_clips_files) = 0 THEN 0
       ELSE IF hits = {} THEN 1
       ELSE CHOOSE i \in hits : \A j \in hits : i <= j

\* lines 788-843: the mirror and start_shorts_creation_task, return True.  The
\* worker's run_task (shorts_creation_task.py:31-123) assigns sub_task_name in
\* its for loop at line 52, so the name is local to it: the first statement
\* raises UnboundLocalError, the except block raises it again, and the thread
\* ends without having called the registry.
AutoShortsLaunch(t) ==
    /\ InAuto(t, "shorts_launch")
    /\ LET f == Top(t)
           ai_clips_files == Artifact("ai_clips_files", <<>>)
           file_index == shorts_file_index(ai_clips_files, f.clipping_name)
           after == mirrored(ai_clips_files, ai_clips_files[file_index].path, file_index,
                             "shorts_creation", RunningMirror("shorts started", Stamp))
       IN /\ IF file_index = 0 THEN UNCHANGED regVars
             ELSE SetArtifacts([k \in {"ai_clips_files"} |-> after])
          /\ thr' = SetTop(t, [f EXCEPT !.pc = "finally", !.ret = TRUE,
                                        !.clipping_name = <<>>, !.existing_clips = <<>>])
          /\ hist' = Launched("shorts", f.inv)
    /\ UNCHANGED <<now, last, ops, fs>>

\* lines 851-854: the flag is cleared and the call returns
AutoFinally(t) ==
    /\ InAuto(t, "finally")
    /\ SetArtifacts([k \in {"_auto_continue_processing"} |-> FALSE])
    /\ thr' = Returning(t, Top(t).ret)
    /\ UNCHANGED <<now, last, ops, fs, hist>>

----------------------------------------------------------------------------
(* The callers of the automaton and the stage workers *)

AtPc(t, pc) == thr[t].pc = pc /\ Len(thr[t].stk) = 0
At(t, pc) == [thr EXCEPT ![t].pc = pc]

ArtifactsToAdd ==
    [video_path |-> VideoPath, audio_filename |-> AudioFilename]

\* initial_processing_task.py:34-37
InitialBegin ==
    /\ AtPc("init", "i_begin")
    /\ SetSubTask(InitialProcessing, "RUNNING", Some("starting"), Some(0), None, None)
    /\ thr' = At("init", "i_work")
    /\ UNCHANGED <<now, last, ops, fs, hist>>

\* initial_processing_task.py:44-109: the download and the audio extraction
\* succeed and the artifacts are stored, or an exception is raised (139-142)
InitialWork ==
    /\ AtPc("init", "i_work")
    /\ \E ok \in BOOLEAN :
        IF ok
        THEN /\ SetArtifacts(ArtifactsToAdd)
             /\ fs' = [q \in (DOMAIN fs) \cup {VideoPath, AudioFilename} |-> <<>>]
             /\ thr' = At("init", "i_completed")
        ELSE /\ SetSubTask(InitialProcessing, "FAILED", None, None, None, Some("download error"))
             /\ thr' = At("init", "i_failed")
             /\ UNCHANGED fs
    /\ UNCHANGED <<now, last, ops, hist>>

\* initial_processing_task.py:111-115
InitialCompleted ==
    /\ AtPc("init", "i_completed")
    /\ SetSubTask(InitialProcessing, "COMPLETED", Some("downloaded"), Some(100),
                  Some(ArtifactsToAdd), None)
    /\ thr' = At("init", "i_status")
    /\ UNCHANGED <<now, last, ops, fs, hist>>

\* initial_processing_task.py:116-135: the workflow status, then the automaton
\* without force_check
InitialStatus ==
    /\ AtPc("init", "i_status")
    /\ SetRegistry(reg_update_workflow_status(Registry, Stamp, W1, "RUNNING",
                       Some("initial processing done"), None))
    /\ thr' = [thr EXCEPT !["init"] =
                  IF Artifact("auto_mode", FALSE) THEN Calling(@, "i_auto", FALSE)
                  ELSE [@ EXCEPT !.pc = "done"]]
    /\ UNCHANGED <<now, last, ops, fs, hist>>

\* initial_processing_task.py:143
InitialFailed ==
    /\ AtPc("init", "i_failed")
    /\ SetRegistry(reg_update_workflow_status(Registry, Stamp, W1, "FAILED", None,
                       Some("download error")))
    /\ thr' = At("init", "done")
    /\ UNCHANGED <<now, last, ops, fs, hist>>

\* colab_api.py:21-90, get_next_task: the workflow is handed to Colab
transcription_available(sts) ==
    IF ~HasSub(sts, Transcription) THEN TRUE
    ELSE /\ GetSub(sts, Transcription).status = "RUNNING"
         /\ ~({"simple_path", "detailed_path"} \subseteq DOMAIN GetSub(sts, Transcription).outputs)

NextTask ==
    /\ AtPc("colab", "idle")
    /\ hist.rx < MaxRx
    /\ SubIs(SubTasks, InitialProcessing, "COMPLETED")
    /\ transcription_available(SubTasks)
    /\ Artifact("audio_filename", "") # ""
    /\ SetSubTask(Transcription, "RUNNING", Some("sent to colab"), None, None, None)
    /\ thr' = At("colab", "c_sent")
    /\ hist' = [hist EXCEPT !.rx = @ + 1]
    /\ UNCHANGED <<now, last, ops, fs>>

SavedFiles ==
    [simple_path |-> TranscriptionSimplePath, detailed_path |-> TranscriptionDetailedPath]

\* colab_api.py:93-128, 149-152, receive_transcription: both files arrive and
\* the sub-task is COMPLETED, or one is missing and it is FAILED
ReceiveTranscription ==
    /\ AtPc("colab", "c_sent")
    /\ \E ok \in BOOLEAN :
        IF ok
        THEN /\ fs' = [q \in (DOMAIN fs) \cup
                            {TranscriptionSimplePath, TranscriptionDetailedPath} |-> <<>>]
             /\ SetSubTask(Transcription, "COMPLETED", Some("transcription saved"), None,
                           Some(SavedFiles), None)
             /\ thr' = At("colab", "c_artifacts")
        ELSE /\ SetSubTask(Transcription, "FAILED", None, None, None, Some("files missing"))
             /\ thr' = At("colab", "idle")
             /\ UNCHANGED fs
    /\ UNCHANGED <<now, last, ops, hist>>

\* colab_api.py:131-145: the artifacts, then the automaton without force_check
ReceiveArtifacts ==
    /\ AtPc("colab", "c_artifacts")
    /\ SetArtifacts([transcription_simple_path |-> TranscriptionSimplePath,
                     transcription_detailed_path |-> TranscriptionDetailedPath])
    /\ thr' = [thr EXCEPT !["colab"] =
                  IF Artifact("auto_mode", FALSE) THEN Calling(@, "c_auto", FALSE)
                  ELSE [@ EXCEPT !.pc = "idle"]]
    /\ UNCHANGED <<now, last, ops, fs, hist>>

\* simple_api.py:985-1019, get_status: the automaton with force_check, then
\* the projection of the workflow, which changes nothing
PollStatus ==
    /\ AtPc("poll", "idle")
    /\ hist.polls < MaxPolls
    /\ Artifact("auto_mode", FALSE)
    /\ thr' = [thr EXCEPT !["poll"] = Calling(@, "p_auto", TRUE)]
    /\ hist' = [hist EXCEPT !.polls = @ + 1]
    /\ UNCHANGED <<regVars, now, last, ops, fs>>

\* clipping_task.py:35-46
ClipBegin(w) ==
    /\ AtPc(w, "w_begin")
    /\ IF Exists(VideoPath)
       THEN /\ SetSubTask(thr[w].name, "RUNNING", Some("clipping started"), Some(0), None, None)
            /\ thr' = At(w, "w_work")
       ELSE /\ SetRegistry(reg_update_sub_task(
                   reg_update_sub_task(Registry, Stamp, W1, thr[w].name, "clipping", "RUNNING",
                       Some("clipping started"), Some(0), None, None, DiskWritable),
                   Stamp, W1, thr[w].name, "clipping", "FAILED", None, None, None,
                   Some("video missing"), DiskWritable))
            /\ thr' = At(w, "done")
    /\ UNCHANGED <<now, last, ops, fs, hist>>

\* clipping_task.py:50-60: the progress update of the one clip
ClipProgress(w) ==
    /\ AtPc(w, "w_work")
    /\ SetSubTask(thr[w].name, "RUNNING", Some("clip 1/1"), Some(100), None, None)
    /\ thr' = At(w, "w_end")
    /\ UNCHANGED <<now, last, ops, fs, hist>>

\* clipping_task.py:62-118: the clip is written and the sub-task COMPLETED,
\* then the automaton with force_check; or no clip could be made
ClipFinish(w) ==
    /\ AtPc(w, "w_end")
    /\ \E ok \in BOOLEAN :
        IF ok
        THEN /\ fs' = Written(ClipPath, <<>>)
             /\ SetSubTask(thr[w].name, "COMPLETED", Some("clips made"), Some(100),
                           Some([clips |-> <<ClipPath>>]), None)
             /\ thr' = [thr EXCEPT ![w] =
                           IF Artifact("auto_mode", FALSE) THEN Calling(@, "w_auto", TRUE)
                           ELSE [@ EXCEPT !.pc = "done"]]
        ELSE /\ SetSubTask(thr[w].name, "FAILED", None, None, None, Some("no clip made"))
             /\ thr' = At(w, "done")
             /\ UNCHANGED fs
    /\ UNCHANGED <<now, last, ops, hist>>

\* delete_sub_task on a FAILED sub-task (for the transcription,
\* colab_api.py:155-186, reset_transcription)
DeleteFailed ==
    /\ hist.deletes < MaxDeletes
    /\ \E i \in 1..Len(SubTasks) :
        /\ SubTasks[i].st.status = "FAILED"
        /\ SetRegistry(reg_delete_sub_task(Registry, Stamp, W1, SubTasks[i].name, DiskWritable))
        /\ hist' = [hist EXCEPT !.deletes = @ + 1, !.redo = @ \cup {SubTasks[i].name}]
    /\ UNCHANGED <<now, last, ops, fs, thr>>

Sleeping(t) ==
    /\ Len(thr[t].stk) > 0
    /\ Top(t).pc \in {"ai_sleep", "clip_sleep"}
    /\ Top(t).wake > now

DebouncePending == now - Artifact("_last_auto_continue", 0) < TicksPerSecond

\* time passes, as far as some thread sleeps or the debounce window is open
Tick ==
    /\ now < Now0 + MaxTicks
    /\ DebouncePending \/ \E t \in Threads : Sleeping(t)
    /\ now' = now + 1
    /\ UNCHANGED <<regVars, last, ops, thr, fs, hist>>

\* simple_api.py:869-970, create_video: the workflow in automatic mode, and the
\* initial-processing worker started
CreateVideoArtifacts ==
    [system_prompt_id |-> S1, user_prompt_id |-> U1, auto_mode |-> TRUE]

InitAuto ==
    /\ LET reg == reg_create_workflow([tasks |-> EmptyDict, dirty |-> FALSE, disk |-> None],
                      Now0, W1, "wf", CreateVideoArtifacts, DiskWritable)
       IN tasks = reg.tasks /\ dirty = reg.dirty /\ disk = reg.disk
    /\ now = Now0
    /\ last = [op |-> "init"]
    /\ ops = 0
    /\ thr = [t \in Threads |-> IF t = "init" THEN [IdleThread EXCEPT !.pc = "i_begin"]
                                ELSE IdleThread]
    /\ fs = EmptyDict
    /\ hist = [launched |-> [ai |-> 0, clipping |-> 0, shorts |-> 0], invs |-> <<>>,
               rx |-> 0, polls |-> 0, deletes |-> 0, redo |-> {}]

NextAuto ==
    \/ \E t \in Threads :
        \/ AutoStart(t)
        \/ AutoStamp(t)
        \/ AutoSet(t)
        \/ AutoStages(t)
        \/ AutoAiStart(t)
        \/ AutoAiWork(t)
        \/ AutoAiSleep(t)
        \/ AutoClipLaunch(t)
        \/ AutoClipSleep(t)
        \/ AutoShortsLaunch(t)
        \/ AutoFinally(t)
    \/ InitialBegin
    \/ InitialWork
    \/ InitialCompleted
    \/ InitialStatus
    \/ InitialFailed
    \/ NextTask
    \/ ReceiveTranscription
    \/ ReceiveArtifacts
    \/ \E w \in ClipWorkers :
        \/ ClipBegin(w)
        \/ ClipProgress(w)
        \/ ClipFinish(w)
    \/ Tick

\* the workflow from its creation, driven by the callbacks of its stages
SpecAuto == InitAuto /\ [][NextAuto]_vars

\* the registry when the initial processing is done and its callback has
\* returned, having found no stage to launch
reg_after_initial ==
    LET reg0 == reg_create_workflow([tasks |-> EmptyDict, dirty |-> FALSE, disk |-> None],
                    Now0, W1, "wf", CreateVideoArtifacts, DiskWritable)
        reg1 == reg_update_sub_task(reg0, Stamp, W1, InitialProcessing, "processing",
                    "RUNNING", Some("starting"), Some(0), None, None, DiskWritable)
        reg2 == reg_update_workflow_artifacts(reg1, Stamp, W1, ArtifactsToAdd)
        reg3 == reg_update_sub_task(reg2, Stamp, W1, InitialProcessing, "processing",
                    "COMPLETED", Some("downloaded"), Some(100), Some(ArtifactsToAdd), None,
                    DiskWritable)
        reg4 == reg_update_workflow_status(reg3, Stamp, W1, "RUNNING",
                    Some("initial processing done"), None)
        reg5 == reg_update_workflow_artifacts(reg4, Stamp, W1,
                    [k \in {"_last_auto_continue"} |-> Now0])
        reg6 == reg_update_workflow_artifacts(reg5, Stamp, W1,
                    [k \in {"_auto_continue_processing"} |-> TRUE])
    IN reg_update_workflow_artifacts(reg6, Stamp, W1,
           [k \in {"_auto_continue_processing"} |-> FALSE])

InitPoll ==
    /\ tasks = reg_after_initial.tasks
    /\ dirty = reg_after_initial.dirty
    /\ disk = reg_after_initial.disk
    /\ now = Now0
    /\ last = [op |-> "init"]
    /\ ops = 0
    /\ thr = [t \in Threads |-> IF t = "init" THEN [IdleThread EXCEPT !.pc = "done"]
                                ELSE IdleThread]
    /\ fs = [q \in {VideoPath, AudioFilename} |-> <<>>]
    /\ hist = [launched |-> [ai |-> 0, clipping |-> 0, shorts |-> 0],
               invs |-> <<[t0 |-> Now0, n |-> 0]>>,
               rx |-> 0, polls |-> 0, deletes |-> 0, redo |-> {}]

NextPoll ==
    \/ \E t \in Threads :
        \/ AutoStart(t)
        \/ AutoStamp(t)
        \/ AutoSet(t)
        \/ AutoStages(t)
        \/ AutoAiStart(t)
        \/ AutoAiWork(t)
        \/ AutoAiSleep(t)
        \/ AutoClipLaunch(t)
        \/ AutoClipSleep(t)
        \/ AutoShortsLaunch(t)
        \/ AutoFinally(t)
    \/ NextTask
    \/ ReceiveTranscription
    \/ ReceiveArtifacts
    \/ PollStatus
    \/ \E w \in ClipWorkers :
        \/ ClipBegin(w)
        \/ ClipProgress(w)
        \/ ClipFinish(w)
    \/ DeleteFailed
    \/ Tick

\* the workflow from the end of its initial processing, with the status polls
\* of the client and the deletion of failed sub-tasks
SpecPoll == InitPoll /\ [][NextPoll]_vars

\* the registry a fresh TaskManager loads when the process is restarted after
\* the initial processing: the workflow, saved as running, is FAILED
reg_restarted ==
    [tasks |-> loaded_tasks(reg_after_initial.disk), dirty |-> FALSE,
     disk |-> reg_after_initial.disk]

InitRestarted ==
    /\ tasks = reg_restarted.tasks
    /\ dirty = reg_restarted.dirty
    /\ disk = reg_restarted.disk
    /\ now = Now0
    /\ last = [op |-> "load_tasks_from_disk"]
    /\ ops = 0
    /\ thr = [t \in Threads |-> IF t = "init" THEN [IdleThread EXCEPT !.pc = "done"]
                                ELSE IdleThread]
    /\ fs = [q \in {VideoPath, AudioFilename} |-> <<>>]
    /\ hist = [launched |-> [ai |-> 0, clipping |-> 0, shorts |-> 0],
               invs |-> <<>>,
               rx |-> 0, polls |-> 0, deletes |-> 0, redo |-> {}]

\* the workflow after a restart of the process, with the Colab callbacks, the
\* status polls and the workers that follow
SpecRestarted == InitRestarted /\ [][NextPoll]_vars

----------------------------------------------------------------------------
(* The service kept running: the status polled again and again, the snapshot
   saved in the background, and the process ended and started again *)

\* The process ends with its threads (all daemon threads) wherever they are,
\* and is started again: a fresh TaskManager loads the snapshot
\* (task_manager.py:84-87, 120-155).  ops counts the restarts.
ServiceRestart ==
    /\ ops < MaxCrashes
    /\ \E clean_exit \in BOOLEAN : Restart(clean_exit, DiskWritable)
    /\ ops' = ops + 1
    /\ thr' = [t \in Threads |-> IF t = "init" THEN [IdleThread EXCEPT !.pc = "done"]
                                 ELSE IdleThread]
    /\ UNCHANGED <<fs, hist>>

\* simple_api.py:985-1019, get_status, by a client that never stops asking
PollAgain ==
    /\ AtPc("poll", "idle")
    /\ Artifact("auto_mode", FALSE)
    /\ thr' = [thr EXCEPT !["poll"] = Calling(@, "p_auto", TRUE)]
    /\ UNCHANGED <<regVars, now, last, ops, fs, hist>>

\* time passes while a thread sleeps (simple_api.py:615, 742)
SleepTick ==
    /\ \E t \in Threads : Sleeping(t)
    /\ now' = now + 1
    /\ UNCHANGED <<regVars, last, ops, thr, fs, hist>>

\* a step of thread t inside auto_continue_workflow
AutoStep(t) ==
    \/ AutoStart(t)
    \/ AutoStamp(t)
    \/ AutoSet(t)
    \/ AutoStages(t)
    \/ AutoAiStart(t)
    \/ AutoAiWork(t)
    \/ AutoAiSleep(t)
    \/ AutoClipLaunch(t)
    \/ AutoClipSleep(t)
    \/ AutoShortsLaunch(t)
    \/ AutoFinally(t)

\* a step of the clipping worker w
ClipStep(w) == ClipBegin(w) \/ ClipProgress(w) \/ ClipFinish(w)

\* the thread of worker w has ended (clipping_task.py:119-120 starts a new
\* thread for every launch): the next launch finds a thread to start
ClipEnded(w) ==
    /\ AtPc(w, "done")
    /\ thr' = [thr EXCEPT ![w] = IdleThread]
    /\ UNCHANGED <<regVars, now, last, ops, fs, hist>>

\* the registry when Colab has delivered the transcription and the callback
\* that followed (colab_api.py:137-145) was refused by the debounce
reg_after_transcription ==
    LET reg1 == reg_update_sub_task(reg_after_initial, Stamp, W1, Transcription,
                    "transcription", "RUNNING", Some("sent to colab"), None, None, None,
                    DiskWritable)
        reg2 == reg_update_sub_task(reg1, Stamp, W1, Transcription, "transcription",
                    "COMPLETED", Some("transcription saved"), None, Some(SavedFiles), None,
                    DiskWritable)
    IN reg_update_workflow_artifacts(reg2, Stamp, W1,
           [transcription_simple_path |-> TranscriptionSimplePath,
            transcription_detailed_path |-> TranscriptionDetailedPath])

InitService ==
    /\ tasks = reg_after_transcription.tasks
    /\ dirty = reg_after_transcription.dirty
    /\ disk = reg_after_transcription.disk
    /\ now = Now0
    /\ last = [op |-> "init"]
    /\ ops = 0
    /\ thr = [t \in Threads |-> IF t = "init" THEN [IdleThread EXCEPT !.pc = "done"]
                                ELSE IdleThread]
    /\ fs = [q \in {VideoPath, AudioFilename, TranscriptionSimplePath,
                     TranscriptionDetailedPath} |-> <<>>]
    /\ hist = [launched |-> [ai |-> 0, clipping |-> 0, shorts |-> 0],
               invs |-> <<[t0 |-> Now0, n |-> 0], [t0 |-> Now0, n |-> 0]>>,
               rx |-> 1, polls |-> 0, deletes |-> 0, redo |-> {}]

NextService ==
    \/ \E t \in Threads : AutoStep(t)
    \/ PollAgain
    \/ \E w \in ClipWorkers : ClipStep(w) \/ ClipEnded(w)
    \/ SleepTick
    \/ ServiceRestart

\* every thread that can take a step takes one in the end, sleeps end, and the
\* client polls again whenever its last poll has returned
FairService ==
    /\ \A t \in Threads : WF_vars(AutoStep(t))
    /\ \A w \in ClipWorkers : WF_vars(ClipStep(w)) /\ WF_vars(ClipEnded(w))
    /\ WF_vars(PollAgain)
    /\ WF_vars(SleepTick)

SpecService == InitService /\ [][NextService]_vars /\ FairService

----------------------------------------------------------------------------
(* SpecManual: a workflow that is not in automatic mode (created without
   'auto_mode', or with it false), its initial-processing worker, and callers
   that invoke auto_continue_workflow on it and keep the returned value.  No
   invocation gets past line 560, so of the automaton only its first step
   takes part. *)

ManualArtifacts ==
    {[system_prompt_id |-> S1, user_prompt_id |-> U1],
     [system_prompt_id |-> S1, user_prompt_id |-> U1, auto_mode |-> FALSE]}

DirectCallers == {"colab", "poll"}

\* at most MaxDirectCalls invocations
MaxDirectCalls == 3

InitManual ==
    /\ \E a \in ManualArtifacts :
        LET reg == reg_create_workflow([tasks |-> EmptyDict, dirty |-> FALSE, disk |-> None],
                       Now0, W1, "wf", a, DiskWritable)
        IN tasks = reg.tasks /\ dirty = reg.dirty /\ disk = reg.disk
    /\ now = Now0
    /\ last = [op |-> "init"]
    /\ ops = 0
    /\ thr = [t \in Threads |-> IF t = "init" THEN [IdleThread EXCEPT !.pc = "i_begin"]
                                ELSE IdleThread]
    /\ fs = EmptyDict
    /\ hist = [launched |-> [ai |-> 0, clipping |-> 0, shorts |-> 0], invs |-> <<>>,
               rx |-> 0, polls |-> 0, deletes |-> 0, redo |-> {}]

\* auto_continue_workflow(task_id, force_check) is called
DirectInvoke(t) ==
    \E force_check \in BOOLEAN :
        /\ AtPc(t, "idle")
        /\ ops < MaxDirectCalls
        /\ ops' = ops + 1
        /\ thr' = [thr EXCEPT ![t] = Calling(@, "d_auto", force_check)]
        /\ UNCHANGED <<regVars, now, last, fs, hist>>

\* the caller has the returned value and ends
DirectReturn(t) ==
    /\ thr[t].pc \in {"d_true", "d_false"}
    /\ Len(thr[t].stk) = 0
    /\ thr' = [thr EXCEPT ![t] = IdleThread]
    /\ UNCHANGED <<regVars, now, last, ops, fs, hist>>

NextManual ==
    \/ InitialBegin
    \/ InitialWork
    \/ InitialCompleted
    \/ InitialStatus
    \/ InitialFailed
    \/ \E t \in DirectCallers : DirectInvoke(t)
    \/ \E t \in DirectCallers : AutoStart(t)
    \/ \E t \in DirectCallers : DirectReturn(t)

SpecManual == InitManual /\ [][NextManual]_vars

----------------------------------------------------------------------------
(* SpecUpsert: update_sub_task on one workflow with every argument given or
   omitted, and with a kind that may differ from the one of the creation.
   The workflow holds one AI file record, whose mirror the calls on the
   clipping sub-task keep in step. *)

UpsertStatuses == {"RUNNING", "COMPLETED", "FAILED"}
UpsertTypes == {"processing", "clipping"}
UpsertMessages == {None, Some("m1")}
UpsertProgress == {None, Some(50)}
UpsertOutputs == {None, Some([k1 |-> 1])}
UpsertArtifacts == [ai_clips_files |-> <<FileInfo("ai_clips.json", S1, U1, Now0)>>]

InitUpsert ==
    /\ LET reg == reg_create_workflow([tasks |-> EmptyDict, dirty |-> FALSE, disk |-> None],
                      Now0, W1, "wf", UpsertArtifacts, TRUE)
       IN tasks = reg.tasks /\ dirty = reg.dirty /\ disk = reg.disk
    /\ now = Now0
    /\ last = [op |-> "create_workflow", task_id |-> W1, existed |-> FALSE]
    /\ ops = 0
    /\ thr = EmptyDict
    /\ fs = EmptyDict
    /\ hist = [prev |-> [op |-> "init"], resets |-> 0]

\* at most MaxUpserts calls of update_sub_task and MaxResets of update_workflow_artifacts
MaxUpserts == 2
MaxResets == 1

Upsert ==
    \E n \in RegNames, ty \in UpsertTypes, s \in UpsertStatuses, m \in UpsertMessages,
       p \in UpsertProgress, o \in UpsertOutputs, e \in RegErrors :
        /\ ops < MaxUpserts
        /\ ops' = ops + 1
        /\ update_sub_task(W1, n, ty, s, m, p, o, e, TRUE)
        /\ hist' = [hist EXCEPT !.prev = last]
        /\ UNCHANGED <<thr, fs>>

\* a caller stores the list of AI file records as it read it before the
\* sub-task was mirrored into it
UpsertReset ==
    /\ hist.resets < MaxResets
    /\ hist' = [hist EXCEPT !.resets = @ + 1]
    /\ update_workflow_artifacts(W1, UpsertArtifacts)
    /\ UNCHANGED <<ops, thr, fs>>

NextUpsert == Upsert \/ UpsertReset

SpecUpsert == InitUpsert /\ [][NextUpsert]_vars

----------------------------------------------------------------------------
(* SpecDisk: the snapshot file, its temporary file and its .bak companion.
   save_tasks_to_disk runs step by step in two threads (a caller of
   create_workflow and the periodic saver); the process may stop at any
   point and a fresh TaskManager then loads the file; the file may come back
   damaged from outside the program.

   A file text is [closed, items]: closed is FALSE for a text that stops
   before the JSON value is complete, items are the (key, value) pairs of
   the top-level object in file order.  A value is [json |-> "number"] or
   [json |-> "object", v |-> dict]. *)

StateFile == "task_state.json"
TmpFile == "task_state.tmp"
BakFile == "task_state.bak"

\* line 114: temp_file = self.state_file.with_suffix('.tmp')
temp_file_is_state_file == StateFile
temp_file == TmpFile

\* line 175: self.state_file.with_suffix('.bak')
bak_file == BakFile

EmptyText == [closed |-> FALSE, items |-> <<>>]

RECURSIVE DictItems(_, _)
DictItems(d, keys) ==
    IF keys = {} THEN <<>>
    ELSE LET k == CHOOSE x \in keys : TRUE
         IN <<[key |-> k, value |-> [json |-> "object", v |-> d[k]]]>>
                \o DictItems(d, keys \ {k})

\* json.dump(tasks_to_save, f) written to the end
json_dump(d) == [closed |-> TRUE, items |-> DictItems(d, DOMAIN d)]

\* the keys the constructors read with task_data[...] and sub_data[...]
WorkflowKeys == {"task_id", "name", "status", "message", "created_at", "updated_at", "artifacts"}
SubTaskKeys == {"type", "status", "message", "progress", "updated_at", "outputs"}

\* KeyError or ValueError while the record is built (lines 145-166)
RecordRaises(task_data) ==
    \/ \E i \in 1..Len(task_data.sub_tasks) :
          \/ ~(SubTaskKeys \subseteq DOMAIN task_data.sub_tasks[i].st)
          \/ task_data.sub_tasks[i].st.status \notin StatusValues
    \/ ~(WorkflowKeys \subseteq DOMAIN task_data)
    \/ task_data.status \notin StatusValues

\* the loop of lines 135-166 over the parsed items: the workflows stored
\* before the loop ended or raised, and the exception that ended it
RECURSIVE load_items(_, _)
load_items(items, acc) ==
    IF items = <<>> THEN [tasks |-> acc, raised |-> "none"]
    ELSE LET it == Head(items) IN
         IF it.value.json # "object" THEN [tasks |-> acc, raised |-> "TypeError"]
         ELSE IF "sub_tasks" \notin DOMAIN it.value.v THEN load_items(Tail(items), acc)
         ELSE IF RecordRaises(it.value.v) THEN [tasks |-> acc, raised |-> "Exception"]
         ELSE load_items(Tail(items),
                  [k \in DOMAIN acc \cup {it.key} |->
                      IF k = it.key THEN WorkflowTask_from_dict(it.value.v) ELSE acc[k]])

\* json.load and the loop
load_text(text) ==
    IF ~text.closed THEN [tasks |-> EmptyDict, raised |-> "JSONDecodeError"]
    ELSE load_items(text.items, EmptyDict)

\* os.replace(src, dst), and os.rename where it replaces the destination
Replace(files, src, dst) ==
    [n \in (DOMAIN files \ {src}) \cup {dst} |-> IF n = dst THEN files[src] ELSE files[n]]

WriteFile(files, n, text) ==
    [m \in DOMAIN files \cup {n} |-> IF m = n THEN text ELSE files[m]]

\* lines 172-177: os.rename(state_file, .bak); where the destination exists
\* it is replaced on POSIX, and the call raises OSError on Windows
quarantine(files, posix) ==
    IF bak_file \in DOMAIN files /\ ~posix THEN files
    ELSE Replace(files, StateFile, bak_file)

\* load_tasks_from_disk in a fresh TaskManager: the registry and the files
load_tasks_from_disk(files, posix) ==
    IF StateFile \notin DOMAIN files THEN [tasks |-> EmptyDict, files |-> files]
    ELSE LET ld == load_text(files[StateFile])
         IN [tasks |-> ld.tasks,
             files |-> IF ld.raised \in {"JSONDecodeError", "TypeError"}
                       THEN quarantine(files, posix) ELSE files]

W2 == "w2"
GoodRecord(id) == [json |-> "object", v |-> WorkflowTask_to_dict(WorkflowTask(id, "wf", EmptyDict, Now0))]
WithoutKey(d, key) == [k \in DOMAIN d \ {key} |-> d[k]]

\* texts a damaged snapshot file may hold
TruncatedText == EmptyText
NumberText == [closed |-> TRUE, items |-> <<[key |-> W1, value |-> GoodRecord(W1)],
                                            [key |-> W2, value |-> [json |-> "number"]]>>]
MissingFieldText ==
    [closed |-> TRUE,
     items |-> <<[key |-> W1, value |-> GoodRecord(W1)],
                 [key |-> W2, value |-> [json |-> "object",
                                         v |-> WithoutKey(GoodRecord(W2).v, "name")]]>>]
BadStatusText ==
    [closed |-> TRUE,
     items |-> <<[key |-> W1, value |-> [json |-> "object",
                                         v |-> [GoodRecord(W1).v EXCEPT !.status = "bogus"]]]>>]
DamagedTexts == {TruncatedText, NumberText, MissingFieldText, BadStatusText}

Savers == {"caller", "ticker"}
SaverIdle == [pc |-> "idle", snap |-> EmptyText]
LockFree == \A t \in Savers : thr[t].pc \notin {"locked", "opened", "dumped"}

InitDisk ==
    /\ tasks = EmptyDict
    /\ dirty = FALSE
    /\ disk = None
    /\ now = Now0
    /\ last = [op |-> "init"]
    /\ ops = 0
    /\ thr = [t \in Savers |-> SaverIdle]
    /\ fs = EmptyDict
    /\ hist = [damages |-> 0, restarts |-> 0, cuts |-> 0]

\* at most MaxWrites registry writes, MaxDamages damaged files, MaxRestarts restarts
MaxWrites == 2
MaxDamages == 2
MaxRestarts == 2

DiskStatuses == {"RUNNING", "COMPLETED"}

\* create_workflow up to its call of save_tasks_to_disk (lines 181-189)
DiskCreate ==
    /\ ops < MaxWrites
    /\ thr["caller"].pc = "idle"
    /\ LockFree
    /\ ops' = ops + 1
    /\ tasks' = [k \in DOMAIN tasks \cup {W1} |->
                    IF k = W1 THEN WorkflowTask(W1, "wf", EmptyDict, now) ELSE tasks[k]]
    /\ dirty' = TRUE
    /\ thr' = [thr EXCEPT !["caller"].pc = "enter"]
    /\ last' = [op |-> "create_workflow", task_id |-> W1]
    /\ UNCHANGED <<disk, now, fs, hist>>

\* update_workflow_status: no save of its own
DiskStatus ==
    \E s \in DiskStatuses :
        /\ ops < MaxWrites
        /\ W1 \in DOMAIN tasks
        /\ LockFree
        /\ ops' = ops + 1
        /\ tasks' = [tasks EXCEPT ![W1] = workflow_after_status(@, s, None, None, now)]
        /\ dirty' = TRUE
        /\ last' = [op |-> "update_workflow_status", task_id |-> W1]
        /\ UNCHANGED <<disk, now, thr, fs, hist>>

\* _periodic_save, line 97
TickerWake ==
    /\ thr["ticker"].pc = "idle"
    /\ dirty
    /\ thr' = [thr EXCEPT !["ticker"].pc = "enter"]
    /\ last' = [op |-> "save_tasks_to_disk", step |-> "wake", thread |-> "ticker"]
    /\ UNCHANGED <<tasks, dirty, disk, now, ops, fs, hist>>

\* lines 102-103: the test of the flag without the lock
SaveEnter(t) ==
    /\ thr[t].pc = "enter"
    /\ thr' = [thr EXCEPT ![t].pc = IF dirty THEN "want" ELSE "idle"]
    /\ last' = [op |-> "save_tasks_to_disk", step |-> "enter", thread |-> t]
    /\ UNCHANGED <<tasks, dirty, disk, now, ops, fs, hist>>

\* lines 105-110: the lock, the second test, the snapshot
SaveLock(t) ==
    /\ thr[t].pc = "want"
    /\ LockFree
    /\ thr' = [thr EXCEPT ![t] = IF dirty
                                 THEN [pc |-> "locked", snap |-> json_dump(tasks_to_save(tasks))]
                                 ELSE SaverIdle]
    /\ last' = [op |-> "save_tasks_to_disk", step |-> "lock", thread |-> t]
    /\ UNCHANGED <<tasks, dirty, disk, now, ops, fs, hist>>

\* line 115: open(temp_file, 'w') creates or empties the file, or raises
SaveOpen(t) ==
    \E ok \in BOOLEAN :
        /\ thr[t].pc = "locked"
        /\ fs' = IF ok THEN WriteFile(fs, temp_file, EmptyText) ELSE fs
        /\ thr' = [thr EXCEPT ![t] = IF ok THEN [@ EXCEPT !.pc = "opened"] ELSE SaverIdle]
        /\ last' = [op |-> "save_tasks_to_disk", step |-> "open", thread |-> t, ok |-> ok]
        /\ UNCHANGED <<tasks, dirty, disk, now, ops, hist>>

\* line 116: json.dump writes the whole text, or raises with a part written
SaveDump(t) ==
    \E ok \in BOOLEAN :
        /\ thr[t].pc = "opened"
        /\ fs' = IF ok THEN WriteFile(fs, temp_file, thr[t].snap) ELSE fs
        /\ thr' = [thr EXCEPT ![t] = IF ok THEN [@ EXCEPT !.pc = "dumped"] ELSE SaverIdle]
        /\ last' = [op |-> "save_tasks_to_disk", step |-> "dump", thread |-> t, ok |-> ok]
        /\ UNCHANGED <<tasks, dirty, disk, now, ops, hist>>

\* lines 117-118: os.replace and the flag, or the exception
SaveReplace(t) ==
    \E ok \in BOOLEAN :
        /\ thr[t].pc = "dumped"
        /\ fs' = IF ok THEN Replace(fs, temp_file, StateFile) ELSE fs
        /\ dirty' = IF ok THEN FALSE ELSE dirty
        /\ thr' = [thr EXCEPT ![t] = SaverIdle]
        /\ last' = [op |-> "save_tasks_to_disk", step |-> "replace", thread |-> t, ok |-> ok]
        /\ UNCHANGED <<tasks, disk, now, ops, hist>>

\* the process stops where it is, and a fresh TaskManager loads the file
DiskRestart ==
    \E posix \in BOOLEAN :
        LET ld == load_tasks_from_disk(fs, posix) IN
        /\ hist.restarts < MaxRestarts
        /\ hist' = [hist EXCEPT !.restarts = @ + 1,
                                !.cuts = IF \E t \in Savers : thr[t].pc \in {"opened", "dumped"}
                                         THEN @ + 1 ELSE @]
        /\ tasks' = ld.tasks
        /\ fs' = ld.files
        /\ dirty' = FALSE
        /\ thr' = [t \in Savers |-> SaverIdle]
        /\ last' = [op |-> "load_tasks_from_disk", posix |-> posix]
        /\ UNCHANGED <<disk, now, ops>>

\* the snapshot file comes back damaged from outside the program
Damage ==
    \E text \in DamagedTexts :
        /\ hist.damages < MaxDamages
        /\ hist' = [hist EXCEPT !.damages = @ + 1]
        /\ fs' = WriteFile(fs, StateFile, text)
        /\ last' = [op |-> "damage"]
        /\ UNCHANGED <<tasks, dirty, disk, now, ops, thr>>

NextDisk ==
    \/ DiskCreate
    \/ DiskStatus
    \/ TickerWake
    \/ \E t \in Savers : SaveEnter(t)
    \/ \E t \in Savers : SaveLock(t)
    \/ \E t \in Savers : SaveOpen(t)
    \/ \E t \in Savers : SaveDump(t)
    \/ \E t \in Savers : SaveReplace(t)
    \/ DiskRestart
    \/ Damage

SpecDisk == InitDisk /\ [][NextDisk]_vars

----------------------------------------------------------------------------
(* SpecTerminal: the status projection on a workflow whose single-instance
   stages are done and whose clipping and shorts stages have up to two
   instances each, in any status. *)

S2 == <<"s2">>
ClippingName2 == <<"clipping">> \o S2 \o U1 \o strftime(Now0)
ShortsName2 == <<"shorts", "creation">> \o S2 \o U1 \o strftime(Now0)

ClippingInstances == {ClippingName, ClippingName2}
ShortsInstances == {ShortsName, ShortsName2}
InstanceStatuses == {"RUNNING", "COMPLETED", "FAILED"}

\* the registry once initial_processing, transcription and ai_clip_generation
\* have completed
reg_chain_completed ==
    LET r0 == reg_create_workflow([tasks |-> EmptyDict, dirty |-> FALSE, disk |-> None],
                  Now0, W1, "wf", [auto_mode |-> TRUE], TRUE)
        r1 == reg_update_sub_task(r0, Now0, W1, InitialProcessing, "processing",
                  "RUNNING", None, None, None, None, TRUE)
        r2 == reg_update_sub_task(r1, Now0, W1, InitialProcessing, "processing",
                  "COMPLETED", None, Some(100), None, None, TRUE)
        r3 == reg_update_sub_task(r2, Now0, W1, Transcription, "transcription",
                  "COMPLETED", None, Some(100), None, None, TRUE)
        r4 == reg_update_sub_task(r3, Now0, W1, AiClipGeneration, "ai_generation",
                  "RUNNING", None, None, None, None, TRUE)
    IN reg_update_sub_task(r4, Now0, W1, AiClipGeneration, "ai_generation",
           "COMPLETED", None, Some(100), None, None, TRUE)

InitTerminal ==
    /\ tasks = reg_chain_completed.tasks
    /\ dirty = reg_chain_completed.dirty
    /\ disk = reg_chain_completed.disk
    /\ now = Now0
    /\ last = [op |-> "init"]
    /\ ops = 0
    /\ thr = EmptyDict
    /\ fs = EmptyDict
    /\ hist = EmptyDict

\* at most MaxInstanceUpdates updates of instances
MaxInstanceUpdates == 4

\* a clipping worker reports on its instance
ClippingUpdate ==
    \E n \in ClippingInstances, s \in InstanceStatuses :
        /\ ops < MaxInstanceUpdates
        /\ ops' = ops + 1
        /\ update_sub_task(W1, n, "clipping", s, None, None,
               IF s = "COMPLETED" THEN Some([clips |-> <<"c1">>]) ELSE None,
               IF s = "FAILED" THEN Some("e1") ELSE None, TRUE)
        /\ UNCHANGED autoVars

\* a shorts worker, started on the clips of a completed clipping instance,
\* reports on its instance
ShortsUpdate ==
    \E n \in ShortsInstances, s \in InstanceStatuses :
        /\ ops < MaxInstanceUpdates
        /\ HasStatus(SubsWithPrefix(tasks[W1].sub_tasks, ClippingPrefix), "COMPLETED")
        /\ ops' = ops + 1
        /\ update_sub_task(W1, n, "shorts_creation", s, None, None, None,
               IF s = "FAILED" THEN Some("e1") ELSE None, TRUE)
        /\ UNCHANGED autoVars

NextTerminal == ClippingUpdate \/ ShortsUpdate

SpecTerminal == InitTerminal /\ [][NextTerminal]_vars

----------------------------------------------------------------------------
(* SpecStage: the status projection applied to a workflow in any status whose
   five stages each have no sub-task or one in any status. *)

AbsentOr(statuses) == {None} \cup {Some(s) : s \in statuses}
StageStatuses == {"PENDING", "RUNNING", "COMPLETED", "FAILED"}

\* the dict entry of a sub-task in the given status, if any
StageEntry(name, type, status, outputs) ==
    IF IsNone(status) THEN <<>>
    ELSE <<[name |-> name,
            st |-> [SubTask(type, Now0) EXCEPT !.status = Val(status), !.outputs = outputs]]>>

StageWorkflow(ws, s1, s2, s3, s4, s5, clips) ==
    [WorkflowTask(W1, "wf", EmptyDict, Now0) EXCEPT
        !.status = ws,
        !.sub_tasks = StageEntry(InitialProcessing, "processing", s1, EmptyDict)
                      \o StageEntry(Transcription, "transcription", s2, EmptyDict)
                      \o StageEntry(AiClipGeneration, "ai_generation", s3, EmptyDict)
                      \o StageEntry(ClippingName, "clipping", s4, clips)
                      \o StageEntry(ShortsName, "shorts_creation", s5, EmptyDict)]

InitStage ==
    /\ \E ws \in TaskStatus, s1 \in AbsentOr(StageStatuses), s2 \in AbsentOr(StageStatuses),
          s3 \in AbsentOr(StageStatuses), s4 \in AbsentOr(StageStatuses),
          s5 \in AbsentOr(StageStatuses), clips \in {EmptyDict, [clips |-> <<"c1">>]} :
           tasks = [id \in {W1} |-> StageWorkflow(ws, s1, s2, s3, s4, s5, clips)]
    /\ dirty = TRUE
    /\ disk = None
    /\ now = Now0
    /\ last = [op |-> "init"]
    /\ ops = 0
    /\ thr = EmptyDict
    /\ fs = EmptyDict
    /\ hist = EmptyDict

\* the status query: get_simple_status on the workflow
StageQuery ==
    /\ ops = 0
    /\ ops' = 1
    /\ last' = [op |-> "get_status", result |-> get_simple_status(tasks[W1])]
    /\ UNCHANGED <<tasks, dirty, disk, now, thr, fs, hist>>

NextStage == StageQuery

SpecStage == InitStage /\ [][NextStage]_vars

----------------------------------------------------------------------------
(* SpecRead: a reader holds the object get_task returned while a writer runs
   update_sub_task on the same workflow.  The writer's assignments are taken
   one at a time: they are made under the registry lock, which the reader
   does not hold while it reads through the object it was given. *)

ReadOutputs == {None, Some([clips |-> <<"c1">>])}
ReadStatuses == {"RUNNING", "COMPLETED"}

ReaderIdle == [pc |-> "idle", got |-> None, seen |-> None]
WriterIdle == [pc |-> "idle", args |-> None]
WriterLocked == thr["writer"].pc # "idle"

InitRead ==
    /\ LET r0 == reg_create_workflow([tasks |-> EmptyDict, dirty |-> FALSE, disk |-> None],
                     Now0, W1, "wf", [auto_mode |-> TRUE], TRUE)
           r1 == reg_update_sub_task(r0, Now0, W1, InitialProcessing, "processing",
                     "RUNNING", None, None, None, None, TRUE)
       IN tasks = r1.tasks /\ dirty = r1.dirty /\ disk = r1.disk
    /\ now = Now0
    /\ last = [op |-> "init"]
    /\ ops = 0
    /\ thr = [reader |-> ReaderIdle, writer |-> WriterIdle]
    /\ fs = EmptyDict
    /\ hist = EmptyDict

\* at most MaxUpdates calls of the writer and MaxReads reads per object
MaxUpdates == 2
MaxReads == 2

\* get_task, lines 191-194: the registry's own object is returned; got
\* records the value it had at that moment
GetTask ==
    /\ thr["reader"].pc = "idle"
    /\ ~WriterLocked
    /\ thr' = [thr EXCEPT !["reader"] = [pc |-> "holding", got |-> Some(tasks[W1]), seen |-> None]]
    /\ ops' = 0
    /\ last' = [op |-> "get_task", task_id |-> W1]
    /\ UNCHANGED <<tasks, dirty, disk, now, fs, hist>>

\* the reader reads the sub-task through the object it holds, which is the
\* one in the registry (simple_api.py:584-594)
ReadSubTask ==
    /\ thr["reader"].pc = "holding"
    /\ ops < MaxReads
    /\ ops' = ops + 1
    /\ thr' = [thr EXCEPT !["reader"].seen = Some(GetSub(tasks[W1].sub_tasks, InitialProcessing))]
    /\ last' = [op |-> "read", task_id |-> W1]
    /\ UNCHANGED <<tasks, dirty, disk, now, fs, hist>>

\* the reader drops the object
DropTask ==
    /\ thr["reader"].pc = "holding"
    /\ thr' = [thr EXCEPT !["reader"] = ReaderIdle]
    /\ ops' = 0
    /\ last' = [op |-> "drop", task_id |-> W1]
    /\ UNCHANGED <<tasks, dirty, disk, now, fs, hist>>

\* update_sub_task, lines 201-217: the lock and the assignment of the status
WriterStatus ==
    \E s \in ReadStatuses, o \in ReadOutputs :
        /\ thr["writer"].pc = "idle"
        /\ now < Now0 + MaxUpdates
        /\ now' = now + 1
        /\ thr' = [thr EXCEPT !["writer"] =
                      [pc |-> "fields",
                       args |-> Some([status |-> s, outputs |-> o, before |-> tasks[W1]])]]
        /\ tasks' = [tasks EXCEPT ![W1].sub_tasks =
                        PutSub(@, InitialProcessing,
                               [GetSub(@, InitialProcessing) EXCEPT !.status = s])]
        /\ last' = [op |-> "update_sub_task", step |-> "status", task_id |-> W1]
        /\ UNCHANGED <<dirty, disk, ops, fs, hist>>

\* lines 218-227: message, progress, outputs and error
WriterFields ==
    /\ thr["writer"].pc = "fields"
    /\ thr' = [thr EXCEPT !["writer"].pc = "stamp"]
    /\ tasks' = [tasks EXCEPT ![W1].sub_tasks =
                    PutSub(@, InitialProcessing,
                           [GetSub(@, InitialProcessing) EXCEPT
                               !.outputs = IF IsNone(Val(thr["writer"].args).outputs) THEN @
                                           ELSE dict_update(@, Val(Val(thr["writer"].args).outputs))])]
    /\ last' = [op |-> "update_sub_task", step |-> "fields", task_id |-> W1]
    /\ UNCHANGED <<dirty, disk, now, ops, fs, hist>>

\* lines 229-257: the stamps, the promotion, the mirror and the flush; the
\* registry is then as the whole call leaves it
WriterStamp ==
    /\ thr["writer"].pc = "stamp"
    /\ LET a == Val(thr["writer"].args)
       IN SetRegistry(reg_update_sub_task(
              [tasks |-> [tasks EXCEPT ![W1] = a.before], dirty |-> dirty, disk |-> disk],
              now, W1, InitialProcessing, "processing", a.status, None, None, a.outputs,
              None, TRUE))
    /\ thr' = [thr EXCEPT !["writer"] = WriterIdle]
    /\ last' = [op |-> "update_sub_task", step |-> "stamp", task_id |-> W1]
    /\ UNCHANGED <<now, ops, fs, hist>>

NextRead ==
    \/ GetTask
    \/ ReadSubTask
    \/ DropTask
    \/ WriterStatus
    \/ WriterFields
    \/ WriterStamp

SpecRead == InitRead /\ [][NextRead]_vars

----------------------------------------------------------------------------
(* SpecMirror: update_sub_task on the composite-named sub-tasks of the one AI
   file record of a workflow, with the callers that write the record's
   sub_tasks themselves *)

MirrorKinds == {<<"clipping">>, <<"compilation">>, <<"shorts", "creation">>}
MirrorFile == UpsertArtifacts["ai_clips_files"][1]

\* at most MaxMirrorUpdates calls of update_sub_task
MaxMirrorUpdates == 2

\* a worker reports on the sub-task named by generate_subtask_name
MirrorUpdate ==
    \E kind \in MirrorKinds, s \in UpsertStatuses, p \in UpsertProgress,
       o \in UpsertOutputs, e \in RegErrors :
        /\ ops < MaxMirrorUpdates
        /\ ops' = ops + 1
        /\ update_sub_task(W1, generate_subtask_name(MirrorFile, kind), JoinParts(kind),
               s, None, p, o, e, TRUE)
        /\ hist' = [hist EXCEPT !.prev = last]
        /\ UNCHANGED <<thr, fs>>

\* simple_api.py lines 813-832: the automaton writes the record's
\* 'shorts_creation' entry before it starts the worker
MirrorAnnounce ==
    /\ hist.resets < MaxResets
    /\ hist' = [hist EXCEPT !.resets = @ + 1]
    /\ LET ai_clips_files == tasks[W1].artifacts["ai_clips_files"]
       IN update_workflow_artifacts(W1, [k \in {"ai_clips_files"} |->
              mirrored(ai_clips_files, MirrorFile.path, 1, "shorts_creation",
                       RunningMirror("shorts started", now))])
    /\ UNCHANGED <<ops, thr, fs>>

NextMirror == MirrorUpdate \/ MirrorAnnounce

SpecMirror == InitUpsert /\ [][NextMirror]_vars
----------------------------------------------------------------------------
(* Registry claims *)

LastUpdated ==
    /\ last.op = "update_sub_task"
    /\ last.task_id \in DOMAIN tasks
    /\ HasSub(tasks[last.task_id].sub_tasks, last.name)

\* C1: after an update_sub_task call that supplies an error, whatever status is
\* passed with it, the sub-task is FAILED and the parent workflow is FAILED.
C1_ErrorFailsSubTaskAndWorkflow ==
    (LastUpdated /\ ~IsNone(last.error)) =>
        /\ GetSub(tasks[last.task_id].sub_tasks, last.name).status = "FAILED"
        /\ tasks[last.task_id].status = "FAILED"

\* C2: an update_sub_task call keeps, with its value, every output key of the
\* sub-task that the call does not mention (outputs omitted included).
C2_OutputsMerge ==
    [][\A id \in WorkflowIds :
        (/\ last'.op = "update_sub_task"
         /\ last'.task_id = id
         /\ id \in DOMAIN tasks
         /\ HasSub(tasks[id].sub_tasks, last'.name))
        => LET before == GetSub(tasks[id].sub_tasks, last'.name).outputs
               after == GetSub(tasks'[id].sub_tasks, last'.name).outputs
               mentioned == IF IsNone(last'.outputs) THEN {}
                            ELSE DOMAIN Val(last'.outputs)
           IN \A k \in (DOMAIN before) \ mentioned :
                  k \in DOMAIN after /\ after[k] = before[k]]_vars

\* a call that does not mention k1 has run on a sub-task that holds k1
C2_Witness ==
    /\ LastUpdated
    /\ (IsNone(last.outputs) \/ "k1" \notin DOMAIN Val(last.outputs))
    /\ "k1" \in DOMAIN GetSub(tasks[last.task_id].sub_tasks, last.name).outputs

Loaded == last.op = "load_tasks_from_disk" /\ ~IsNone(disk)

\* C3: after a restart no loaded workflow holds a RUNNING sub-task; a sub-task
\* RUNNING in the snapshot is FAILED with the restart error.
C3_NoRunningSubTaskAfterRestart ==
    Loaded =>
        \A id \in DOMAIN tasks : \A i \in 1..Len(tasks[id].sub_tasks) :
            LET st == tasks[id].sub_tasks[i].st
                saved == Val(disk)[id].sub_tasks[i].st
            IN /\ st.status # "RUNNING"
               /\ saved.status = StatusValue("RUNNING") =>
                      st.status = "FAILED" /\ st.error = Some(RestartError)

\* C4: load_tasks_from_disk turns every workflow saved as RUNNING into FAILED
\* with the restart error, and loads every other workflow with its status.
C4_LoadInterruptsRunningWorkflows ==
    Loaded =>
        \A id \in DOMAIN Val(disk) :
            /\ id \in DOMAIN tasks
            /\ IF Val(disk)[id].status = StatusValue("RUNNING")
               THEN /\ tasks[id].status = "FAILED"
                    /\ tasks[id].error = Some(RestartError)
                    /\ RestartError # ""
               ELSE StatusValue(tasks[id].status) = Val(disk)[id].status

\* a snapshot with a RUNNING workflow has been loaded
C4_Witness ==
    /\ Loaded
    /\ \E id \in DOMAIN Val(disk) : Val(disk)[id].status = StatusValue("RUNNING")

\* a snapshot with a workflow in another status has been loaded
C4_WitnessOther ==
    /\ Loaded
    /\ \E id \in DOMAIN Val(disk) : Val(disk)[id].status = StatusValue("COMPLETED")

----------------------------------------------------------------------------
(* Projection claims *)

\* C7: when sub-tasks are updated in stage order, the aggregate progress of
\* calculate_progress never decreases from one update to the next.
C7_ProgressMonotone ==
    [][(W1 \in DOMAIN tasks /\ last'.op = "update_sub_task")
        => calculate_progress(tasks'[W1]) >= calculate_progress(tasks[W1])]_vars

OnlyDownloadCompleted(wf) ==
    /\ Len(wf.sub_tasks) = 1
    /\ SubIs(wf.sub_tasks, InitialProcessing, "COMPLETED")

\* C8: with the download stage COMPLETED as the only sub-task of a fresh
\* workflow, the status query reports the waiting stage and about 20% progress.
C8_DownloadDoneIsTwentyPercent ==
    \A id \in DOMAIN tasks :
        OnlyDownloadCompleted(tasks[id]) =>
            /\ get_simple_status(tasks[id]).stage = "waiting_transcription"
            /\ get_simple_status(tasks[id]).progress >= 10 * (WeightInitial - 1)
            /\ get_simple_status(tasks[id]).progress <= 10 * (WeightInitial + 1)

----------------------------------------------------------------------------
(* Automaton claims *)

AiPresent(statuses) ==
    /\ HasSub(SubTasks, AiClipGeneration)
    /\ GetSub(SubTasks, AiClipGeneration).status \in statuses

\* thread t starts the AI analysis in this step (simple_api.py:450)
StartsAi(t) == InAuto(t, "ai_start") /\ InAuto(t, "ai_work")'

\* C5: no automaton invocation starts ai_clip_generation while a sub-task
\* ai_clip_generation that is RUNNING or COMPLETED exists.
C5_AiStartedOnce ==
    [][\A t \in Threads : StartsAi(t) => ~AiPresent({"RUNNING", "COMPLETED"})]_vars

\* C6: of two invocations without force_check, the second starting less than
\* the debounce window after the first, at most one launches a stage, and
\* that one launches one stage only.
C6_OneLaunchInWindow ==
    \A i, j \in 1..Len(hist.invs) :
        (i < j /\ hist.invs[j].t0 - hist.invs[i].t0 < TicksPerSecond)
            => hist.invs[i].n + hist.invs[j].n <= 1

\* the place of a sub-task's stage in the chain of stages
StageNo(name) ==
    IF name = InitialProcessing THEN 1
    ELSE IF name = Transcription THEN 2
    ELSE IF name = AiClipGeneration THEN 3
    ELSE IF StartsWith(name, ClippingPrefix) THEN 4
    ELSE 5

\* a FAILED sub-task of stage k or of a stage before it is present
FailedUpTo(k) ==
    \E i \in 1..Len(SubTasks) :
        SubTasks[i].st.status = "FAILED" /\ StageNo(SubTasks[i].name) <= k

\* thread t launches the clipping, or the shorts stage, in this step
\* (simple_api.py:732, 836)
StartsClipping(t) == InAuto(t, "clip_launch") /\ InAuto(t, "clip_sleep")'
StartsShorts(t) == InAuto(t, "shorts_launch") /\ InAuto(t, "finally")'

\* C9: while a FAILED sub-task of a stage is present, no automaton invocation
\* starts that stage or a stage after it.
C9_NoLaunchPastFailed ==
    [][\A t \in Threads :
        /\ StartsAi(t) => ~FailedUpTo(3)
        /\ StartsClipping(t) => ~FailedUpTo(4)
        /\ StartsShorts(t) => ~FailedUpTo(5)]_vars

\* thread t evaluates the stage guards in this step
Decides(t) == InAuto(t, "stages") /\ ~InAuto(t, "stages")'

\* a FAILED sub-task is deleted in this step
Deletes(name) ==
    /\ hist'.deletes # hist.deletes
    /\ SubIs(SubTasks, name, "FAILED")
    /\ name \in hist'.redo

RedoneClipping ==
    LET clipping_tasks_list == SubsWithPrefix(SubTasks, ClippingPrefix)
    IN /\ Len(clipping_tasks_list) > 0
       /\ clipping_tasks_list[1].name \in hist.redo
       /\ clipping_tasks_list[1].st.status = "COMPLETED"
       /\ Len(existing_clips(clipping_tasks_list[1].st)) > 0

\* C10: a FAILED sub-task that delete_sub_task removes leaves nothing behind,
\* the other sub-tasks are kept in their order, a sub-task made anew under the
\* name carries no error unless it fails itself, and once the new instance is
\* COMPLETED an automaton invocation that evaluates the guards with the inputs
\* of the successor stage at hand goes on to launch it (for a deleted clipping
\* with no new instance, the clipping itself).
C10_DeletedStageRunsAgain ==
    [][/\ \A i \in 1..Len(SubTasks) :
            Deletes(SubTasks[i].name) =>
                /\ ~HasSub(SubTasks', SubTasks[i].name)
                /\ SubTasks' = DelSub(SubTasks, SubTasks[i].name)
       /\ \A name \in hist.redo :
            (~HasSub(SubTasks, name) /\ HasSub(SubTasks', name)) =>
                \/ GetSub(SubTasks', name).status = "FAILED"
                \/ IsNone(GetSub(SubTasks', name).error)
       /\ \A t \in Threads :
            /\ (/\ Decides(t)
                /\ Transcription \in hist.redo
                /\ SubIs(SubTasks, InitialProcessing, "COMPLETED")
                /\ SubIs(SubTasks, Transcription, "COMPLETED")
                /\ ~HasSub(SubTasks, AiClipGeneration)
                /\ stage1_inputs) => InAuto(t, "ai_start")'
            /\ (/\ Decides(t)
                /\ \E name \in hist.redo : StageNo(name) = 4
                /\ Len(SubsWithPrefix(SubTasks, ClippingPrefix)) = 0
                /\ AiPresent({"COMPLETED"})
                /\ stage2_inputs) => InAuto(t, "clip_launch")'
            /\ (/\ Decides(t)
                /\ HasSub(SubTasks, AiClipGeneration)
                /\ RedoneClipping
                /\ Len(SubsWithPrefix(SubTasks, ShortsPrefix)) = 0)
                    => InAuto(t, "shorts_launch")']_vars

\* the transcription failed and was deleted, its new instance is COMPLETED,
\* and the automaton has started the AI analysis after it
C10_Witness ==
    /\ Transcription \in hist.redo
    /\ SubIs(SubTasks, Transcription, "COMPLETED")
    /\ AiPresent({"RUNNING", "COMPLETED"})

\* the clipping failed and was deleted, and after it the automaton is about
\* to launch the clipping anew
C10_WitnessClipping ==
    /\ \E name \in hist.redo : StageNo(name) = 4
    /\ Len(SubsWithPrefix(SubTasks, ClippingPrefix)) = 0
    /\ \E t \in Threads : InAuto(t, "clip_launch")

\* a clipping made anew after the deletion is COMPLETED, and the automaton is
\* about to launch the shorts stage
C10_WitnessShorts ==
    /\ RedoneClipping
    /\ \E t \in Threads : InAuto(t, "shorts_launch")

----------------------------------------------------------------------------
(* Registry contract *)

\* the step is a call of op on workflow id
Calls(op, id) == last'.op = op /\ last'.task_id = id

\* C11: create_workflow on an id that already exists fails, and the existing
\* workflow (status, artifacts, sub-tasks) is left as it was.
C11_CreateExistingFails ==
    [][\A id \in WorkflowIds :
        (Calls("create_workflow", id) /\ id \in DOMAIN tasks)
            => /\ tasks'[id].status = tasks[id].status
               /\ tasks'[id].artifacts = tasks[id].artifacts
               /\ tasks'[id].sub_tasks = tasks[id].sub_tasks]_vars

\* C12: an update_sub_task call on a PENDING workflow makes it RUNNING exactly
\* when the sub-task is RUNNING after the call; a call after which the
\* sub-task is not RUNNING leaves the workflow's status as it was.
C12_PromotionFollowsSubTask ==
    [][\A id \in WorkflowIds :
        (Calls("update_sub_task", id) /\ id \in DOMAIN tasks)
            => LET after == GetSub(tasks'[id].sub_tasks, last'.name).status
               IN /\ tasks[id].status = "PENDING" =>
                        (tasks'[id].status = "RUNNING" <=> after = "RUNNING")
                  /\ after # "RUNNING" => tasks'[id].status = tasks[id].status]_vars

\* C13: update_sub_task on an existing sub-task keeps its kind whatever kind
\* is passed, keeps message, progress, outputs and error where the argument
\* is omitted, and leaves every other sub-task of the workflow as it was.
C13_UpsertChangesSuppliedOnly ==
    [][\A id \in WorkflowIds :
        (Calls("update_sub_task", id) /\ id \in DOMAIN tasks)
            => LET before == tasks[id].sub_tasks
                   after == tasks'[id].sub_tasks
                   n == last'.name
               IN /\ HasSub(before, n) =>
                        /\ GetSub(after, n).type = GetSub(before, n).type
                        /\ IsNone(last'.message) =>
                               GetSub(after, n).message = GetSub(before, n).message
                        /\ IsNone(last'.progress) =>
                               GetSub(after, n).progress = GetSub(before, n).progress
                        /\ IsNone(last'.outputs) =>
                               GetSub(after, n).outputs = GetSub(before, n).outputs
                        /\ IsNone(last'.error) =>
                               GetSub(after, n).error = GetSub(before, n).error
                  /\ SubNames(after) = SubNames(before) \cup {n}
                  /\ \A other \in SubNames(before) \ {n} :
                        GetSub(after, other) = GetSub(before, other)]_vars

\* a call with another kind and no message has run on a sub-task that had a
\* message, a progress, outputs and an error
C13_Witness ==
    /\ LastUpdated
    /\ hist.prev.op = "update_sub_task"
    /\ hist.prev.name = last.name
    /\ hist.prev.type # last.type
    /\ ~IsNone(hist.prev.message) /\ IsNone(last.message)
    /\ ~IsNone(hist.prev.progress) /\ IsNone(last.progress)
    /\ ~IsNone(hist.prev.outputs) /\ IsNone(last.outputs)
    /\ ~IsNone(hist.prev.error) /\ IsNone(last.error)

\* the sub-task shows what the call's arguments set
Shows(st, call) ==
    /\ IsNone(call.message) \/ st.message = Val(call.message)
    /\ IsNone(call.progress) \/ st.progress = Val(call.progress)
    /\ IsNone(call.outputs) \/
          \A k \in DOMAIN Val(call.outputs) :
              k \in DOMAIN st.outputs /\ st.outputs[k] = Val(call.outputs)[k]

\* the AI file record of the sub-task, if there is one, mirrors the sub-task
Mirrored(wf, n) == sync_subtask_to_file_info(wf, n) = wf

\* C14: an update_sub_task(..., COMPLETED, ...) call on a workflow that is
\* as the same call left it before (the sub-task COMPLETED and showing the
\* call's arguments, its AI file record mirroring it) changes nothing but
\* the updated_at stamps: the sub-task's status, message, progress, outputs
\* and error, the other sub-tasks, and the workflow's status and artifacts
\* stay, whatever calls ran in between.  (Time stands still in SpecUpsert,
\* so the stamps stay as well.)
C14_DuplicateCompletionIsNoOp ==
    [][\A id \in WorkflowIds :
        (/\ Calls("update_sub_task", id)
         /\ id \in DOMAIN tasks
         /\ last'.status = "COMPLETED"
         /\ IsNone(last'.error)
         /\ SubIs(tasks[id].sub_tasks, last'.name, "COMPLETED")
         /\ Shows(GetSub(tasks[id].sub_tasks, last'.name), last')
         /\ Mirrored(tasks[id], last'.name))
            => /\ tasks'[id].sub_tasks = tasks[id].sub_tasks
               /\ tasks'[id].status = tasks[id].status
               /\ tasks'[id].artifacts = tasks[id].artifacts]_vars

\* the same COMPLETED call, with a message, a progress and outputs, has run
\* twice in a row on the clipping sub-task, which the AI file record mirrors
C14_Witness ==
    /\ LastUpdated
    /\ hist.prev = last
    /\ last.name = ClippingName
    /\ last.status = "COMPLETED"
    /\ IsNone(last.error)
    /\ ~IsNone(last.message) /\ ~IsNone(last.progress) /\ ~IsNone(last.outputs)
    /\ SubIs(tasks[W1].sub_tasks, ClippingName, "COMPLETED")
    /\ "clipping" \in DOMAIN tasks[W1].artifacts["ai_clips_files"][1].sub_tasks

\* C15: delete_sub_task returns True exactly when the named sub-task existed;
\* then the name is gone while the other sub-tasks, the artifacts and the
\* status of the workflow, and every other workflow, are as before; when the
\* sub-task or the workflow is absent it returns False and the registry is
\* unchanged.
C15_DeleteRemovesOnlyNamed ==
    [][\A id \in WorkflowIds :
        Calls("delete_sub_task", id)
            => LET existed == id \in DOMAIN tasks /\ HasSub(tasks[id].sub_tasks, last'.name)
               IN /\ last'.ret = existed
                  /\ existed =>
                        /\ ~HasSub(tasks'[id].sub_tasks, last'.name)
                        /\ SubNames(tasks'[id].sub_tasks)
                               = SubNames(tasks[id].sub_tasks) \ {last'.name}
                        /\ \A other \in SubNames(tasks'[id].sub_tasks) :
                               GetSub(tasks'[id].sub_tasks, other)
                                   = GetSub(tasks[id].sub_tasks, other)
                        /\ tasks'[id].artifacts = tasks[id].artifacts
                        /\ tasks'[id].status = tasks[id].status
                        /\ \A w \in DOMAIN tasks \ {id} : tasks'[w] = tasks[w]
                        /\ DOMAIN tasks' = DOMAIN tasks
                  /\ ~existed => tasks' = tasks]_vars

\* a deletion has returned True on a workflow that has artifacts
C15_Witness ==
    /\ last.op = "delete_sub_task"
    /\ last.ret
    /\ last.task_id \in DOMAIN tasks
    /\ tasks[last.task_id].artifacts # EmptyDict
    /\ tasks[last.task_id].status = "RUNNING"

(* Snapshot file *)

\* the step is a start of the process: load_tasks_from_disk has run
Loads == last'.op = "load_tasks_from_disk"

\* the text is not a snapshot the loader can build every record of
Malformed(text) == load_text(text).raised # "none"

\* C16: when the snapshot file is malformed (cut short, a value that is not
\* a record, a record with a missing field or with a status that is no
\* TaskStatus value), load_tasks_from_disk moves it to the .bak file and the
\* registry is empty afterwards.
C16_MalformedIsQuarantined ==
    [][(Loads /\ StateFile \in DOMAIN fs /\ Malformed(fs[StateFile]))
          => /\ StateFile \notin DOMAIN fs'
             /\ BakFile \in DOMAIN fs'
             /\ fs'[BakFile] = fs[StateFile]
             /\ tasks' = EmptyDict]_vars

\* C17: the content of an existing .bak file never changes, whatever loads,
\* saves and further quarantines follow.
C17_BakNeverOverwritten ==
    [][(BakFile \in DOMAIN fs)
          => (BakFile \in DOMAIN fs' /\ fs'[BakFile] = fs[BakFile])]_vars

\* the text of the registry as save_tasks_to_disk writes it
NewSnapshot == json_dump(tasks_to_save(tasks))

\* C18: no step of the program (a step of save_tasks_to_disk in either
\* thread, with or without a write error, a registry write between two saves,
\* a stop of the process followed by a start) leaves at the snapshot path
\* anything but the text that was there before the step or the complete text
\* of the registry as the save in progress took it.  (The loader may move the
\* file away; it never rewrites it.)
C18_SnapshotOldOrNew ==
    [][(last'.op # "damage" /\ StateFile \in DOMAIN fs')
          => \/ StateFile \in DOMAIN fs /\ fs'[StateFile] = fs[StateFile]
             \/ /\ fs'[StateFile] = NewSnapshot
                /\ NewSnapshot.closed
                /\ load_text(NewSnapshot).tasks = loaded_tasks(Some(tasks_to_save(tasks)))]_vars

\* a save has put the complete new snapshot in place after an earlier save
\* was cut, between its opening of the temporary file and the replacement,
\* by a stop of the process, while the other thread waits for the lock
C18_Witness ==
    /\ last.op = "save_tasks_to_disk" /\ last.step = "replace" /\ last.ok
    /\ hist.cuts > 0
    /\ hist.damages = 0
    /\ StateFile \in DOMAIN fs
    /\ fs[StateFile] = NewSnapshot
    /\ tasks # EmptyDict
    /\ \E t \in Savers : thr[t].pc = "want"

\* C19: when update_sub_task returns after creating a sub-task, or after a
\* call that leaves the sub-task COMPLETED or FAILED, the snapshot on disk
\* is the registry with that update in it (every write succeeds in SpecReg).
C19_FlushedOnReturn ==
    [][\A id \in WorkflowIds :
        (/\ Calls("update_sub_task", id)
         /\ id \in DOMAIN tasks
         /\ \/ ~HasSub(tasks[id].sub_tasks, last'.name)
            \/ GetSub(tasks'[id].sub_tasks, last'.name).status \in {"COMPLETED", "FAILED"})
            => disk' = Some(tasks_to_save(tasks'))]_vars

(* Terminal detection *)

\* the stage of a sub-task name in the precedence list
StageOf(n) ==
    IF n = InitialProcessing THEN 1
    ELSE IF n = Transcription THEN 2
    ELSE IF n = AiClipGeneration THEN 3
    ELSE IF StartsWith(n, ClippingPrefix) THEN 4
    ELSE 5

\* C20: whenever the shorts stage has a COMPLETED instance and no sub-task of
\* an earlier stage is FAILED, the status query reports 'completed', whatever
\* the other instances of the clipping and shorts stages are doing.
C20_CompletedOnceShortsDone ==
    LET sts == tasks[W1].sub_tasks
    IN (/\ HasStatus(SubsWithPrefix(sts, ShortsPrefix), "COMPLETED")
        /\ \A i \in 1..Len(sts) : StageOf(sts[i].name) < 5 => sts[i].st.status # "FAILED")
          => get_simple_status(tasks[W1]).status = "completed"

(* Stage derivation *)

\* the place in the precedence order of the stage a stage name stands for
StageNamed(stage) ==
    IF stage = "downloading" THEN 1
    ELSE IF stage \in {"waiting_transcription", "transcribing"} THEN 2
    ELSE IF stage = "ai_generation" THEN 3
    ELSE IF stage = "clipping" THEN 4
    ELSE 5

\* stage k has a COMPLETED sub-task
StageDone(sts, k) ==
    \E i \in 1..Len(sts) : StageOf(sts[i].name) = k /\ sts[i].st.status = "COMPLETED"

\* C21: unless it returns 'completed' or 'failed', determine_stage names the
\* earliest stage of the precedence order that is not COMPLETED: the stage it
\* names is not COMPLETED and every stage before it is.
C21_EarliestUnfinishedStage ==
    \A id \in DOMAIN tasks :
        LET stage == determine_stage(tasks[id])
            sts == tasks[id].sub_tasks
        IN stage \notin {"completed", "failed"}
              => /\ ~StageDone(sts, StageNamed(stage))
                 /\ \A k \in 1..(StageNamed(stage) - 1) : StageDone(sts, k)

StageNames == {"downloading", "waiting_transcription", "transcribing", "ai_generation", "clipping", "waiting_shorts", "shorts_creation", "completed", "failed"}

C22_WitnessCompleted ==
    /\ last.op = "get_status"
    /\ last.result.status = "completed"
    /\ tasks[W1].status = "RUNNING"

(* Readers *)

\* C23: what a reader sees through the object get_task returned is the
\* sub-task as it was when get_task returned, whatever update_sub_task has
\* done to the registry since.
C23_ReaderSeesSnapshot ==
    LET r == thr["reader"]
    IN ~IsNone(r.seen)
          => Val(r.seen) = GetSub(Val(r.got).sub_tasks, InitialProcessing)

(* Failure propagation *)

\* C24: once the workflow is FAILED no step of the program (a sub-task set to
\* RUNNING or COMPLETED by a callback, a worker or the automaton, a worker
\* finishing) gives it another status.
C24_FailedStaysFailed ==
    [][\A id \in DOMAIN tasks :
        tasks[id].status = "FAILED" => tasks'[id].status = "FAILED"]_vars

\* on a FAILED workflow the transcription has been set RUNNING and then
\* COMPLETED, and the AI analysis has completed
C24_Witness ==
    /\ W1 \in DOMAIN tasks
    /\ tasks[W1].status = "FAILED"
    /\ SubIs(SubTasks, Transcription, "COMPLETED")
    /\ SubIs(SubTasks, AiClipGeneration, "COMPLETED")

\* on a FAILED workflow a sub-task has been set RUNNING
C24_WitnessRunning ==
    /\ W1 \in DOMAIN tasks
    /\ tasks[W1].status = "FAILED"
    /\ HasStatus(SubTasks, "RUNNING")

----------------------------------------------------------------------------
(* The in-progress flag of the automaton *)

Flag == Artifact("_auto_continue_processing", FALSE)

\* thread t, in an invocation past the debounce, finds the flag set in this
\* step and returns (simple_api.py:572-578)
FindsFlagSet(t) == InAuto(t, "stamp") /\ Flag /\ thr'[t] # thr[t]

\* C27: an invocation that finds the in-progress flag set returns without
\* effect: no stage is launched, and the artifacts (the debounce timestamp
\* among them), the sub-tasks and the status of the workflow are as before,
\* the flag included.
C27_BusyInvocationHasNoEffect ==
    [][\A t \in Threads :
        FindsFlagSet(t) => /\ tasks'[W1].artifacts = tasks[W1].artifacts
                           /\ tasks'[W1].sub_tasks = tasks[W1].sub_tasks
                           /\ tasks'[W1].status = tasks[W1].status
                           /\ hist'.launched = hist.launched]_vars

\* the positions of an invocation inside the guarded section, from the flag
\* set at lines 580-581 to the end of the finally block at 851
GuardedPcs ==
    {"stages", "ai_start", "ai_work", "ai_sleep", "recursing", "clip_launch",
     "clip_sleep", "shorts_launch", "finally"}

\* the invocations (thread, frame) that are inside the guarded section
InsideGuarded ==
    {c \in Threads \X (1..2) :
        /\ c[2] <= Len(thr[c[1]].stk)
        /\ thr[c[1]].stk[c[2]].pc \in GuardedPcs}

\* C28: at most one invocation of auto_continue_workflow is inside the guarded
\* section of the workflow at any time, and the flag is set for as long as one
\* is inside.
C28_GuardedSectionIsExclusive ==
    /\ Cardinality(InsideGuarded) <= 1
    /\ InsideGuarded # {} => Flag

\* C29: as long as no sub-task has been deleted, the callbacks and the status
\* polls that reach the automaton together start at most one clipping worker
\* and at most one shorts worker for the AI file of the workflow.
C29_OneWorkerPerVariant ==
    hist.deletes = 0 => /\ hist.launched.clipping <= 1
                        /\ hist.launched.shorts <= 1

\* the recursive call of line 616 returns to its caller in this step
RecursiveCallReturns(t) == Len(thr[t].stk) = 2 /\ Len(thr'[t].stk) = 1

\* C30: when the recursive call made after the AI analysis returns, the
\* clipping stage is not left waiting: if the AI analysis is COMPLETED, no
\* clipping sub-task exists and the inputs of the clipping are at hand, the
\* call has launched the clipping.
C30_RecursionLaunchesClipping ==
    [][\A t \in Threads :
        (RecursiveCallReturns(t) /\ stage2_guard(SubTasks) /\ stage2_inputs)
            => hist.launched.clipping > 0]_vars

----------------------------------------------------------------------------
(* Progress by polling *)

\* the guard and the inputs of each stage hold: the stage can be launched
Stage1Ready == stage1_guard(SubTasks) /\ stage1_inputs
Stage2Ready == stage2_guard(SubTasks) /\ stage2_inputs
Stage3Ready ==
    /\ stage3_guard(SubTasks)
    /\ Len(existing_clips(SubsWithPrefix(SubTasks, ClippingPrefix)[1].st)) > 0

\* C25: with the status polled again and again and every thread running on,
\* no stage stays launchable for ever without being launched: again and again
\* the AI analysis is not waiting to be started (it has its sub-task, or its
\* inputs are gone), the clipping is not waiting to be started, and the shorts
\* stage is not waiting or an invocation is starting it.
C25_PollingLaunchesNextStage ==
    /\ []<>(~Stage1Ready)
    /\ []<>(~Stage2Ready)
    /\ []<>(~Stage3Ready \/ \E t \in Threads : InAuto(t, "shorts_launch"))

\* no thread is inside auto_continue_workflow
NoInvocation == \A t \in Threads : Len(thr[t].stk) = 0

\* C26: whenever no invocation of the automaton is executing, the in-progress
\* flag of the workflow is false.
C26_FlagFalseWhenIdle == NoInvocation => ~Flag

----------------------------------------------------------------------------
(* One stage per invocation, and only on its guard *)

\* C31: an invocation that has launched the clipping returns without
\* launching another stage: the frame that sleeps after start_clipping_task
\* does not go on to launch the shorts stage.
C31_OneLaunchPerInvocation ==
    [][\A t \in Threads :
        InAuto(t, "clip_sleep") => ~InAuto(t, "shorts_launch")']_vars

\* C32: at the moment an invocation launches a stage the guard of that stage
\* holds: the AI analysis is started with download and transcription
\* COMPLETED, no AI sub-task and its inputs present; the clipping with the AI
\* analysis COMPLETED, no clipping sub-task and its inputs present; the shorts
\* stage with the clipping COMPLETED, clips on disk and no shorts sub-task.
C32_LaunchOnlyOnGuard ==
    [][\A t \in Threads :
        /\ StartsAi(t) => Stage1Ready
        /\ StartsClipping(t) => Stage2Ready
        /\ StartsShorts(t) => Stage3Ready]_vars

(* The status mirror of a file record *)

\* the file record's entry for that kind shows the sub-task's status,
\* progress, error and outputs
MirrorShows(wf, kind) ==
    LET fi == wf.artifacts["ai_clips_files"][1]
        st == GetSub(wf.sub_tasks, generate_subtask_name(fi, kind))
        key == JoinParts(kind)
    IN /\ key \in DOMAIN fi.sub_tasks
       /\ fi.sub_tasks[key].status = StatusValue(st.status)
       /\ fi.sub_tasks[key].progress = st.progress
       /\ fi.sub_tasks[key].error = st.error
       /\ fi.sub_tasks[key].outputs = st.outputs

\* C33: after every update_sub_task on the clipping, compilation or
\* shorts_creation sub-task that generate_subtask_name names for a file
\* record of the workflow, the record's sub_tasks entry of that kind has the
\* status, progress, error and outputs of the sub-task.
C33_MirrorFollowsSubTask ==
    [][\A kind \in MirrorKinds :
        (/\ Calls("update_sub_task", W1)
         /\ last'.name = generate_subtask_name(MirrorFile, kind))
            => MirrorShows(tasks'[W1], kind)]_vars

\* the same for the kinds whose name starts with the kind as one '_'-part
C33_SinglePartKinds ==
    [][\A kind \in MirrorKinds :
        (/\ Len(kind) = 1
         /\ Calls("update_sub_task", W1)
         /\ last'.name = generate_subtask_name(MirrorFile, kind))
            => MirrorShows(tasks'[W1], kind)]_vars

(* Every stage execution ends with its sub-task COMPLETED or FAILED *)

Ended(sts, n) == HasSub(sts, n) /\ GetSub(sts, n).status \in {"COMPLETED", "FAILED"}

\* the step in which the stage's work ends, normally or by an exception
InitialEnds == thr["init"].pc \in {"i_work", "i_completed"} /\ thr'["init"].pc \in {"i_status", "i_failed"}
AiEnds(t) == InAuto(t, "ai_work") /\ ~InAuto(t, "ai_work")'
ClippingEnds(w) == thr[w].pc \in {"w_begin", "w_end"} /\ thr'[w].pc \notin {"w_begin", "w_work", "w_end"}

\* C34: when the work of a stage execution ends (the download of the entry
\* trigger, the AI analysis, a clipping worker, a shorts worker), with or
\* without an error, its sub-task is COMPLETED or FAILED, never RUNNING.
C34_StageEndsCompletedOrFailed ==
    [][/\ InitialEnds => Ended(SubTasks', InitialProcessing)
       /\ \A t \in Threads : AiEnds(t) => Ended(SubTasks', AiClipGeneration)
       /\ \A w \in ClipWorkers : ClippingEnds(w) => Ended(SubTasks', thr[w].name)
       /\ \A t \in Threads : StartsShorts(t) =>
              \E i \in 1..Len(SubTasks') :
                  /\ StartsWith(SubTasks'[i].name, <<"shorts", "creation">>)
                  /\ SubTasks'[i].st.status \in {"COMPLETED", "FAILED"}]_vars

\* the same for the download and the clipping workers alone
C34_WorkersEndCompletedOrFailed ==
    [][/\ InitialEnds => Ended(SubTasks', InitialProcessing)
       /\ \A w \in ClipWorkers : ClippingEnds(w) => Ended(SubTasks', thr[w].name)]_vars

(* A workflow that is not in automatic mode *)

auto_mode(wf) == dict_get(wf.artifacts, "auto_mode", FALSE)

\* C35: on a workflow whose artifact 'auto_mode' is absent or false, every
\* step of an invocation of auto_continue_workflow, forced or not, is its
\* return of False: it launches no stage and leaves the workflow (artifacts,
\* sub-tasks, status) as it was.
C35_ManualWorkflowIsLeftAlone ==
    [][\A t \in DirectCallers :
        (/\ Len(thr[t].stk) > 0
         /\ thr'[t] # thr[t]
         /\ W1 \in DOMAIN tasks
         /\ ~auto_mode(tasks[W1]))
            => /\ Len(thr'[t].stk) = 0
               /\ thr'[t].pc = "d_false"
               /\ tasks' = tasks
               /\ hist'.launched = hist.launched]_vars

\* a forced and an unforced invocation have both returned on a workflow
\* created without 'auto_mode', whose initial processing has completed
C35_Witness ==
    /\ "auto_mode" \notin DOMAIN tasks[W1].artifacts
    /\ \A t \in DirectCallers : thr[t].pc = "d_false"
    /\ ops = 2
    /\ Len(hist.invs) = 1
    /\ SubIs(SubTasks, InitialProcessing, "COMPLETED")

\* the same on a workflow whose 'auto_mode' is false
C35_WitnessFalse ==
    /\ "auto_mode" \in DOMAIN tasks[W1].artifacts
    /\ ~auto_mode(tasks[W1])
    /\ \A t \in DirectCallers : thr[t].pc = "d_false"
    /\ ops = 2
    /\ Len(hist.invs) = 1

(* The dirty flag and the background saver *)

\* the snapshot on disk is the registry as it is now
DiskIsRegistry == IF tasks = EmptyDict /\ IsNone(disk) THEN TRUE ELSE disk = Some(tasks_to_save(tasks))

\* C36: no mutation of the registry is lost to persistence: a step of
\* create_workflow, update_sub_task, delete_sub_task, update_workflow_status
\* or update_workflow_artifacts that changes the registry leaves the flag set
\* (or has flushed the change itself); the flag goes from set to clear only
\* with a write of the registry as it is then, so whenever the flag is clear
\* the snapshot holds every mutation; a failed write leaves the flag set and
\* the snapshot as it was; and while the flag is set the background saver
\* eventually writes and clears it.
C36_NoMutationLost ==
    /\ [](~dirty => DiskIsRegistry)
    /\ [][/\ (tasks' # tasks) => (dirty' \/ disk' = Some(tasks_to_save(tasks')))
          /\ (dirty /\ ~dirty') => disk' = Some(tasks_to_save(tasks'))
          /\ (last'.op = "save_tasks_to_disk" /\ ~last'.written) => (dirty' /\ disk' = disk)]_vars
    /\ (dirty ~> ~dirty)

\* the background saver has written a registry whose workflow has a status
\* set by update_workflow_status, which flushes nothing itself
C36_Witness ==
    /\ last.op = "save_tasks_to_disk"
    /\ last.written
    /\ ~dirty
    /\ W1 \in DOMAIN tasks
    /\ tasks[W1].message = "m2"
    /\ disk = Some(tasks_to_save(tasks))

\* a write of the background saver has failed
C36_WitnessFailedWrite ==
    /\ last.op = "save_tasks_to_disk"
    /\ ~last.written
    /\ dirty
    /\ W1 \in DOMAIN tasks
    /\ ~DiskIsRegistry

(* The in-progress flag across a restart *)

\* some invocation is between the setting of the flag and its finally block
GuardHeld == InsideGuarded # {}

\* C37: after a restart has loaded the snapshot, a forced invocation is not
\* turned away by a flag that no running invocation holds: when it returns
\* at the flag test, some invocation is inside the guarded section.
C37_NoStaleFlagAfterRestart ==
    [][\A t \in Threads :
        (/\ ops > 0
         /\ FindsFlagSet(t)
         /\ Top(t).force_check)
            => GuardHeld]_vars

\* the same at any time, restart or not
C37_FlagHeldWhenFound ==
    [][\A t \in Threads : (FindsFlagSet(t) /\ Top(t).force_check) => GuardHeld]_vars

(* A finished pipeline across a restart *)

Reports(wf, status) == get_simple_status(wf).status = status

\* C38: when the status query reports 'completed' for a workflow without a
\* RUNNING sub-task, and the process restarts on the snapshot of that
\* registry, the status query reports 'completed' for the loaded workflow.
C38_CompletedStaysCompleted ==
    [][\A id \in WorkflowIds :
        (/\ Loads
         /\ id \in DOMAIN tasks
         /\ Reports(tasks[id], "completed")
         /\ ~HasStatus(tasks[id].sub_tasks, "RUNNING")
         /\ disk' = Some(tasks_to_save(tasks)))
            => /\ id \in DOMAIN tasks'
               /\ Reports(tasks'[id], "completed")]_vars

(* No launch on a terminal workflow *)

\* the status query reports 'failed' or 'completed' for the workflow
Terminal(wf) == Reports(wf, "failed") \/ Reports(wf, "completed")

\* C39: no invocation of the automaton launches a stage while the status
\* query reports 'failed' or 'completed' for the workflow.
C39_NoLaunchWhenTerminal ==
    [][\A t \in Threads :
        (StartsAi(t) \/ StartsClipping(t) \/ StartsShorts(t)) => ~Terminal(tasks[W1])]_vars

\* the same where the workflow was terminal already when the invocation
\* evaluated its stage guards
C39_NoDecisionWhenTerminal ==
    [][\A t \in Threads :
        (Decides(t) /\ Terminal(tasks[W1])) => InAuto(t, "finally")']_vars

(* Save and load as a round trip *)

\* the loaded workflow is the saved one but for the status conversion (and
\* the workflow's own error and stamps, which the claim leaves open)
Restored(saved, loaded) ==
    /\ loaded.task_id = saved.task_id
    /\ loaded.name = saved.name
    /\ loaded.created_at = saved.created_at
    /\ loaded.artifacts = saved.artifacts
    /\ loaded.status = IF saved.status = "RUNNING" THEN "FAILED" ELSE saved.status
    /\ Len(loaded.sub_tasks) = Len(saved.sub_tasks)
    /\ \A i \in 1..Len(saved.sub_tasks) :
          LET a == saved.sub_tasks[i]
              b == loaded.sub_tasks[i]
          IN /\ b.name = a.name
             /\ b.st.type = a.st.type
             /\ b.st.status = a.st.status
             /\ b.st.progress = a.st.progress
             /\ b.st.message = a.st.message
             /\ b.st.outputs = a.st.outputs
             /\ b.st.error = a.st.error

\* C40: when a fresh TaskManager loads the snapshot that save_tasks_to_disk
\* wrote of the registry, every workflow of the registry is there again with
\* its id, name, created_at and artifacts and the same sub-tasks (type,
\* status, progress, message, outputs, error), its status RUNNING become
\* FAILED and otherwise kept, and no other workflow is there.
C40_SaveLoadRoundTrip ==
    [][(Loads /\ disk' = Some(tasks_to_save(tasks)))
          => /\ DOMAIN tasks' = DOMAIN tasks
             /\ \A id \in DOMAIN tasks : Restored(tasks[id], tasks'[id])]_vars

\* a workflow saved RUNNING with a RUNNING sub-task has been loaded, FAILED,
\* from a snapshot that the exit hook wrote
C40_Witness ==
    /\ Loaded
    /\ last.saved
    /\ W1 \in DOMAIN tasks
    /\ tasks[W1].status = "FAILED"
    /\ tasks[W1].error = Some(RestartError)
    /\ HasStatus(tasks[W1].sub_tasks, "RUNNING")
    /\ Val(disk)[W1].status = StatusValue("RUNNING")

\* a workflow with a COMPLETED sub-task that has outputs has been loaded
C40_WitnessSubTasks ==
    /\ Loaded
    /\ W1 \in DOMAIN tasks
    /\ \E i \in 1..Len(tasks[W1].sub_tasks) :
          LET st == tasks[W1].sub_tasks[i].st
          IN st.status = "COMPLETED" /\ st.outputs # EmptyDict

====
